---- MODULE Spec2Model ----
(***************************************************************************)
(* Simulated exchange accounting of binance-quant-engine: the spot and the *)
(* USDT-margined futures backtest brokers (backend/services/backtest).     *)
(*                                                                         *)
(* A Python float is a rational <<n, d>> in lowest terms with d > 0, so    *)
(* that two numbers are equal iff their pairs are equal. Every arithmetic  *)
(* operation rounds its result to mant_dig significant bits, to nearest    *)
(* with ties to even, as IEEE 754 does (the exponent range is unbounded).  *)
(* Spec takes mant_dig = 0, which stands for arithmetic over the reals,    *)
(* the reading of the "real" quantities of the design; SpecFloat takes a   *)
(* finite mant_dig (a double has 53 bits).                                 *)
(* SpecQuery is Spec with a strategy that also calls the queries           *)
(* get_position and get_account_balance between its orders.                *)
(*                                                                         *)
(* SpecGrid is one run of BacktestService.run_backtest that drives the     *)
(* Grid strategy (backend/strategies/spot/grid.py) over the candles of a   *)
(* data file; SpecService is a BacktestService that is asked for several   *)
(* runs and keeps their results; SpecLive is the polling loop of the live  *)
(* TradeService, SpecFlat the same loop on a market whose candles stop     *)
(* moving, and SpecTrade the TradeService itself (start_strategy,          *)
(* stop_strategy, the task of each strategy and the event bus). Candle     *)
(* closes are market prices and are positive; the reference price 0 of the *)
(* brokers is the price before the first candle.                           *)
(***************************************************************************)
EXTENDS Integers, Sequences, FiniteSets, TLC

----------------------------------------------------------------------------
(* Bounds of the model. *)

\* number of create_order calls in one behaviour
MaxCalls == 2
\* order quantities are 1 .. MaxQty
MaxQty == 2

\* significant bits of a float under SpecFloat
MantissaBits == 12

\* reference prices a candle close takes; 0 is the price before any candle
PriceValues == {0, 1, 8}

\* leverage a futures broker is constructed with
Leverages == {1, 2}

\* initial balances a broker is constructed with
InitialBalances == {0, 3, 10}

Symbols == {"BTCUSDT", "ETHUSDT"}

\* candles of one data file, and candles one live task is handed
MaxCandles == 3
\* run_backtest calls made on one BacktestService
MaxRuns == 2
\* errors the live loop counts in its log before the count saturates
MaxErrors == 2
\* candles a task is given on a market that stops moving
MaxFlat == 8

\* strategies started on one TradeService
MaxStarts == 1

\* closes a candle takes
CloseValues == {1, 2, 4, 8}

----------------------------------------------------------------------------
(* Python float arithmetic. *)

VARIABLE mant_dig     \* significant bits of a float; 0: no rounding

Abs(n) == IF n < 0 THEN -n ELSE n

RECURSIVE GCD(_, _)
GCD(a, b) == IF b = 0 THEN a ELSE GCD(b, a % b)

Rat(n, d) == LET g == GCD(Abs(n), d) IN <<n \div g, d \div g>>

Int2Rat(n) == <<n, 1>>

Zero == <<0, 1>>

\* n / d > 0 rounded to bits significant bits, ties to even
RECURSIVE RoundPos(_, _, _)
RoundPos(n, d, bits) ==
    IF n \div d >= 2^bits
    THEN LET r == IF n % 2 = 0 THEN RoundPos(n \div 2, d, bits)
                  ELSE RoundPos(n, 2 * d, bits)
         IN  Rat(2 * r[1], r[2])
    ELSE IF n \div d < 2^(bits - 1)
    THEN LET r == IF d % 2 = 0 THEN RoundPos(n, d \div 2, bits)
                  ELSE RoundPos(2 * n, d, bits)
         IN  Rat(r[1], 2 * r[2])
    ELSE LET q == n \div d
             r == n % d
         IN  IF 2 * r > d \/ (2 * r = d /\ q % 2 = 1)
             THEN <<q + 1, 1>> ELSE <<q, 1>>

\* the float nearest to x
Fl(x) ==
    IF mant_dig = 0 \/ x[1] = 0 THEN x
    ELSE IF x[1] > 0 THEN RoundPos(x[1], x[2], mant_dig)
    ELSE LET r == RoundPos(-x[1], x[2], mant_dig) IN <<-r[1], r[2]>>

RNeg(x) == <<-x[1], x[2]>>

RAdd(x, y) ==
    LET g == GCD(x[2], y[2])
    IN  Fl(Rat(x[1] * (y[2] \div g) + y[1] * (x[2] \div g),
               (x[2] \div g) * y[2]))

RSub(x, y) == RAdd(x, RNeg(y))

RMul(x, y) ==
    LET a == Rat(x[1], y[2])
        b == Rat(y[1], x[2])
    IN  Fl(<<a[1] * b[1], a[2] * b[2]>>)

\* x / y for y # 0 (Python raises ZeroDivisionError for y = 0)
RDiv(x, y) ==
    IF y[1] > 0 THEN RMul(x, <<y[2], y[1]>>) ELSE RMul(x, <<-y[2], -y[1]>>)

RAbs(x) == <<Abs(x[1]), x[2]>>

\* comparisons are exact
RLt(x, y) ==
    LET g == GCD(x[2], y[2])
    IN  x[1] * (y[2] \div g) < y[1] * (x[2] \div g)

RLeq(x, y) == ~RLt(y, x)

RGeq(x, y) == RLeq(y, x)

RGt(x, y) == RLt(y, x)

----------------------------------------------------------------------------
(* State of one simulated broker. *)

VARIABLES
    market_type,      \* self.market_type: "SPOT" or "USDT_FUTURE"
    leverage,         \* self.leverage (futures broker; 1 on a spot broker)
    balance,          \* self.balance: wallet balance
    asset,            \* self.asset: spot inventory
    trades,           \* self.trades: the trade log
    current_price,    \* self.current_price: reference price
    positions,        \* self.positions: symbol -> {amount, entry_price, margin}
    order,            \* the Order object of the latest create_order call
    calls,            \* number of create_order calls made
    initial_balance,  \* the initial_balance the broker was constructed with
    results,          \* per create_order call so far: the status of the order
                      \* it returned, or "ZeroDivisionError" when it raised
    reply             \* the query the caller made last since the latest
                      \* create_order, the value it returned and the
                      \* reference price it was made at

\* the broker, with the float format of the build
broker == <<mant_dig, market_type, leverage, balance, asset, trades,
            current_price, positions, order, calls, initial_balance, results,
            reply>>

VARIABLES
    strategy,         \* the GridStrategy object: its configuration and its
                      \* last_trade_price, active_buy_order, active_sell_order
    kline_data,       \* kline_data["close"] of the candle being processed
    klines,           \* closes of the candles the strategy was handed so far
    pc,               \* position of run_backtest: "idle" (not running),
                      \* "loop" (at the head of the candle loop), "kline"
                      \* (reference price set, on_kline not yet called)
    runs,             \* number of run_backtest calls made
    registry,         \* StrategyRegistry._strategies: the registered names
    backtest_results, \* self.backtest_results: identifier -> result
    returned,         \* what the latest call on the BacktestService returned
                      \* or raised
    task,             \* position of the live _strategy_loop: "none" (no
                      \* task), "poll", "sleep", "cancelled"
    errors            \* errors the live loop logged, counted up to MaxErrors

VARIABLES
    active_strategies,\* TradeService.active_strategies: identifier -> the
                      \* strategy instance (its grid, its is_running flag)
                      \* and the status of its info
    running_tasks,    \* the keys of TradeService.running_tasks
    tasks,            \* identifier -> position of the polling task created
                      \* for it: "created" (not run yet), "start" (inside
                      \* strategy.start(), awaiting the subscribers of
                      \* STRATEGY_STARTED), "poll" (ready to poll), "sleep",
                      \* "cancelled"
    stops,            \* identifier -> number of stop_strategy calls that
                      \* are inside strategy.stop(), awaiting the subscribers
                      \* of STRATEGY_STOPPED
    subscribers,      \* event types that have a coroutine subscriber on the
                      \* event bus
    polled            \* identifier of the strategy whose on_kline was called
                      \* last (0: none)

\* the live TradeService and the event bus
service == <<active_strategies, running_tasks, tasks, stops, subscribers,
             polled>>

\* the strategy and the services that drive it
driver == <<strategy, kline_data, klines, pc, runs, registry,
            backtest_results, returned, task, errors, service>>

vars == <<broker, driver>>

MarketTypes == {"SPOT", "USDT_FUTURE"}

Sides == {"BUY", "SELL"}

Quantities == {Int2Rat(q) : q \in 1..MaxQty}

Prices == {Int2Rat(p) : p \in PriceValues}

\* Order.__init__: a market order as a strategy constructs it
Order(symbol, side, quantity, mtype) ==
    [symbol |-> symbol, side |-> side, quantity |-> quantity,
     market_type |-> mtype, status |-> "NEW", commission |-> Zero,
     commission_asset |-> "None"]

\* mutant: the order carries the market kind of the broker it is handed to
MarketOrderOfBroker(symbol, side, quantity) ==
    Order(symbol, side, quantity, market_type)

\* Order(symbol, side, OrderType.MARKET, qty) as GridStrategy constructs it:
\* market_type is left to its default, MarketType.SPOT
MarketOrder(symbol, side, quantity) == Order(symbol, side, quantity, "SPOT")

NoOrder == [symbol |-> "None", side |-> "None", quantity |-> Zero,
            market_type |-> "None", status |-> "None", commission |-> Zero,
            commission_asset |-> "None"]

\* order.status = OrderStatus.FILLED
Filled(o) == [o EXCEPT !.status = "FILLED"]

\* mutant: the rejecting branch forgets to set the status
RejectedKeepsStatus(o) == o

\* order.status = OrderStatus.REJECTED
Rejected(o) == [o EXCEPT !.status = "REJECTED"]

\* no query was made since the latest create_order
NoReply == [op |-> "None", arg |-> "None", value |-> Zero, price |-> Zero]

\* the backtest runs until a call raises: nothing catches the exception
Running == \A i \in 1..Len(results) : results[i] # "ZeroDivisionError"

\* the fee rate the constructor picks for the broker's market
commission_rate ==
    IF market_type = "SPOT" THEN Fl(Rat(1, 1000)) ELSE Fl(Rat(5, 10000))

\* the position record used for a symbol that has none
DefaultPosition == [amount |-> Zero, entry_price |-> Zero, margin |-> Zero]

NoPositions == [s \in {} |-> DefaultPosition]

\* self.positions.get(symbol, default)
GetPosition(symbol) ==
    IF symbol \in DOMAIN positions THEN positions[symbol] ELSE DefaultPosition

\* self.positions[symbol] = position
PutPosition(symbol, position) ==
    [s \in (DOMAIN positions) \cup {symbol} |->
        IF s = symbol THEN position ELSE positions[s]]

\* mutant: the notional cost is recorded without the quantity
TradeRecordCostIsPrice(side, price, qty, commission) ==
    [side |-> side, price |-> price, quantity |-> qty,
     cost |-> price, commission |-> commission]

\* the entry _record_trade appends
TradeRecord(side, price, qty, commission) ==
    [side |-> side, price |-> price, quantity |-> qty,
     cost |-> RMul(price, qty), commission |-> commission]

\* mutant: the log keeps the latest trade only
RecordTradeKeepsLatest(log, side, price, qty, commission) ==
    <<TradeRecord(side, price, qty, commission)>>

\* self._record_trade(side, price, qty, commission)
RecordTrade(log, side, price, qty, commission) ==
    Append(log, TradeRecord(side, price, qty, commission))

\* a broker as its constructor leaves it
InitBroker ==
    /\ market_type \in MarketTypes
    /\ leverage \in IF market_type = "USDT_FUTURE" THEN Leverages ELSE {1}
    /\ initial_balance \in {Int2Rat(b) : b \in InitialBalances}
    /\ balance = initial_balance
    /\ results = <<>>
    /\ reply = NoReply
    /\ asset = Zero
    /\ trades = <<>>
    /\ current_price = Zero
    /\ positions = NoPositions
    /\ order = NoOrder
    /\ calls = 0

\* a missing value
None == <<>>

\* the configuration and the grid state of a GridStrategy just constructed
GridStrategy(name, symbol, grid_size, investment_per_grid, quantity, initial_investment, force_initial_buy) ==
    [name |-> name, symbol |-> symbol, grid_size |-> grid_size,
     investment_per_grid |-> investment_per_grid, quantity |-> quantity,
     initial_investment |-> initial_investment,
     force_initial_buy |-> force_initial_buy,
     last_trade_price |-> None, active_buy_order |-> None,
     active_sell_order |-> None]

\* the latest call on the BacktestService or the TradeService (stop_strategy
\* returns {"True"}, start_strategy its new identifier): its name, the
\* identifier it was
\* given or has generated (0: none), the strategy name it was given, whether
\* the data file it asked for exists, the exception it raised, and the set
\* holding the result it returned, empty when it returned None or raised
Returned(op, arg, strategy_name, file_exists, raised, value) ==
    [op |-> op, arg |-> arg, strategy_name |-> strategy_name,
     file_exists |-> file_exists, raised |-> raised, value |-> value]

\* no call was made on the BacktestService yet
NoReturn == Returned("None", 0, "None", TRUE, "None", {})

\* no strategy object exists
NoStrategy == GridStrategy("None", "None", Zero, Zero, Zero, Zero, FALSE)

\* TradeService.__init__: no strategy was started; no subscriber
NoService ==
    /\ active_strategies = <<>>
    /\ running_tasks = {}
    /\ tasks = <<>>
    /\ stops = <<>>
    /\ subscribers = {}
    /\ polled = 0

\* BacktestService.__init__ and TradeService.__init__: nothing runs
NoDriver ==
    /\ NoService
    /\ strategy = NoStrategy
    /\ kline_data = None
    /\ klines = <<>>
    /\ pc = "idle"
    /\ runs = 0
    /\ registry = {}
    /\ backtest_results = <<>>
    /\ returned = NoReturn
    /\ task = "none"
    /\ errors = 0

Init == mant_dig = 0 /\ InitBroker /\ NoDriver

InitFloat == mant_dig = MantissaBits /\ InitBroker /\ NoDriver

\* the backtest loop sets the reference price to the candle's close
SetPrice(p) ==
    /\ Running
    /\ current_price' = p
    /\ current_price # p
    /\ UNCHANGED <<mant_dig, market_type, leverage, balance, asset, trades,
                   positions, order, calls, initial_balance, results, reply>>

----------------------------------------------------------------------------
(* SpotBacktestBroker.create_order *)

SpotCost(o) == RMul(o.quantity, current_price)

\* mutant: the fee is taken on the quantity, not on the cost
SpotCommissionOnQuantity(o) == RMul(o.quantity, commission_rate)

SpotCommission(o) == RMul(SpotCost(o), commission_rate)

\* the funds test of a buy
SpotBuyAccepted(bal, total_cost) == RGeq(bal, total_cost)

\* mutant: the test forgets the quantity sold
SpotSellAcceptedAnyQuantity(inventory, quantity) == RGeq(inventory, Zero)

\* mutant: selling the whole inventory is refused
SpotSellAcceptedStrict(inventory, quantity) == RGt(inventory, quantity)

\* the inventory test of a sell
SpotSellAccepted(inventory, quantity) == RGeq(inventory, quantity)

\* the market kind test that rejects a foreign order
SpotMarketMismatch(o) == o.market_type # market_type

SpotCreateOrder(o) ==
    /\ market_type = "SPOT"
    /\ Running
    /\ calls < MaxCalls
    /\ calls' = calls + 1
    /\ UNCHANGED <<mant_dig, market_type, leverage, current_price, positions,
                   initial_balance>>
    /\ reply' = NoReply
    /\ IF SpotMarketMismatch(o)
       THEN /\ order' = Rejected(o)
            /\ UNCHANGED <<balance, asset, trades>>
       ELSE LET price == current_price
                cost == SpotCost(o)
                commission == SpotCommission(o)
                total_cost == RAdd(cost, commission)
                resolved == [Filled(o) EXCEPT !.commission = commission,
                                              !.commission_asset = "USDT"]
            IN  IF o.side = "BUY"
                THEN IF SpotBuyAccepted(balance, total_cost)
                     THEN /\ balance' = RSub(balance, total_cost)
                          /\ asset' = RAdd(asset, o.quantity)
                          /\ trades' = RecordTrade(trades, "BUY", price,
                                                   o.quantity, commission)
                          /\ order' = resolved
                     ELSE /\ order' = Rejected(resolved)
                          /\ UNCHANGED <<balance, asset, trades>>
                ELSE IF SpotSellAccepted(asset, o.quantity)
                     THEN /\ asset' = RSub(asset, o.quantity)
                          /\ balance' = RAdd(balance, RSub(cost, commission))
                          /\ trades' = RecordTrade(trades, "SELL", price,
                                                   o.quantity, commission)
                          /\ order' = resolved
                     ELSE /\ order' = Rejected(resolved)
                          /\ UNCHANGED <<balance, asset, trades>>
    /\ results' = Append(results, order'.status)

----------------------------------------------------------------------------
(* FutureBacktestBroker.create_order *)

\* signed size of the order: BUY positive, SELL negative
QtyChange(o) == IF o.side = "BUY" THEN o.quantity ELSE RNeg(o.quantity)

\* notional value times the fee rate
FutureCommission(o) == RMul(RMul(o.quantity, current_price), commission_rate)

\* mutant: a flat position is not taken for an opening
IsOpeningCaseNotFlat(current_qty, qty_change) ==
    \/ RGt(current_qty, Zero) /\ RGt(qty_change, Zero)
    \/ RLt(current_qty, Zero) /\ RLt(qty_change, Zero)

\* case A: flat, or the order goes the way of the position
IsOpeningCase(current_qty, qty_change) ==
    \/ current_qty = Zero
    \/ RGt(current_qty, Zero) /\ RGt(qty_change, Zero)
    \/ RLt(current_qty, Zero) /\ RLt(qty_change, Zero)

\* margin of an increment of size qty at price
MarginRequired(qty, price) ==
    RDiv(RMul(RAbs(qty), price), Int2Rat(leverage))

\* mutant: the funds test is missing
OpenAcceptedAlways(bal, total_cost) == TRUE

\* the funds test of case A
OpenAccepted(bal, total_cost) == RGeq(bal, total_cost)

\* mutant: the entry price is the price of the latest fill
NewAvgPriceLastFill(current_qty, entry_price, qty_change, price) == price

\* size-weighted average entry price after an increment
NewAvgPrice(current_qty, entry_price, qty_change, price) ==
    LET old_val == RMul(RAbs(current_qty), entry_price)
        new_val_increment == RMul(RAbs(qty_change), price)
    IN  RDiv(RAdd(old_val, new_val_increment),
             RAbs(RAdd(current_qty, qty_change)))

\* part of the order that closes existing exposure
ClosedQty(qty_change, current_qty) ==
    IF RLeq(RAbs(qty_change), RAbs(current_qty))
    THEN RAbs(qty_change) ELSE RAbs(current_qty)

\* mutant: the closed part is not taken off the order
RemainingQtyWholeOrder(qty_change, current_qty) == RAbs(qty_change)

\* part of the order that reopens in the other direction
RemainingQty(qty_change, current_qty) ==
    IF RLeq(RAbs(qty_change), RAbs(current_qty))
    THEN Zero ELSE RSub(RAbs(qty_change), RAbs(current_qty))

\* mutant: the PnL of a closed short is computed as that of a long
PnlAsLong(price, entry_price, closed_qty, current_qty) ==
    RMul(RSub(price, entry_price), closed_qty)

\* realized PnL of the closed part
Pnl(price, entry_price, closed_qty, current_qty) ==
    LET direction == IF RGt(current_qty, Zero) THEN Int2Rat(1) ELSE Int2Rat(-1)
    IN  RMul(RMul(RSub(price, entry_price), closed_qty), direction)

\* mutant: a reduce releases the whole margin
MarginReleasedWhole(margin, closed_qty, current_qty) == margin

\* margin released in proportion to the closed part
MarginReleased(margin, closed_qty, current_qty) ==
    RMul(margin, RDiv(closed_qty, RAbs(current_qty)))

\* the funds test of the reopened tail of a flip
ReopenAccepted(bal, margin_required) == RGeq(bal, margin_required)

\* mutant: the reject path leaves the wallet as the close left it
RollbackBalanceForgotten(bal, credited) == bal

\* the rejected flip takes back what the close credited
RollbackBalance(bal, credited) == RSub(bal, credited)

\* the rejected flip puts the released margin back
RollbackMargin(margin, margin_released) == RAdd(margin, margin_released)

\* mutant: a position closed to zero keeps its entry price
ReducedPositionNotCleared(position, new_qty, margin_left) ==
    [position EXCEPT !.amount = new_qty, !.margin = margin_left]

\* position after a pure reduce: amount = new_qty, cleared when it is zero
ReducedPosition(position, new_qty, margin_left) ==
    IF new_qty = Zero
    THEN [amount |-> Zero, entry_price |-> Zero, margin |-> Zero]
    ELSE [position EXCEPT !.amount = new_qty, !.margin = margin_left]

\* mutant: the reopened amount forgets the direction of the order
ReopenedPositionUnsigned(remaining_qty, qty_change, price, margin_required) ==
    [amount |-> remaining_qty,
     entry_price |-> price,
     margin |-> margin_required]

\* position a funded flip reopens
ReopenedPosition(remaining_qty, qty_change, price, margin_required) ==
    [amount |-> RMul(remaining_qty,
                     IF RGt(qty_change, Zero) THEN Int2Rat(1) ELSE Int2Rat(-1)),
     entry_price |-> price,
     margin |-> margin_required]

\* mutant: the market kind test is missing
FutureMarketMismatchIgnored(o) == FALSE

\* the market kind test that rejects a foreign order
FutureMarketMismatch(o) == o.market_type # market_type

FutureCreateOrder(o) ==
    /\ market_type = "USDT_FUTURE"
    /\ Running
    /\ calls < MaxCalls
    /\ calls' = calls + 1
    /\ UNCHANGED <<mant_dig, market_type, leverage, current_price, asset,
                   initial_balance>>
    /\ reply' = NoReply
    /\ IF FutureMarketMismatch(o)
       THEN /\ order' = Rejected(o)
            /\ results' = Append(results, order'.status)
            /\ UNCHANGED <<balance, positions, trades>>
       ELSE LET price == current_price
                commission == FutureCommission(o)
                resolved == [Filled(o) EXCEPT !.commission = commission,
                                              !.commission_asset = "USDT"]
                symbol == o.symbol
                position == GetPosition(symbol)
                current_qty == position.amount
                qty_change == QtyChange(o)
                new_qty == RAdd(current_qty, qty_change)
            IN  IF IsOpeningCase(current_qty, qty_change)
                THEN LET margin_required == MarginRequired(qty_change, price)
                         total_cost == RAdd(commission, margin_required)
                     IN  IF ~OpenAccepted(balance, total_cost)
                         THEN /\ order' = Rejected(resolved)
                              /\ results' = Append(results, order'.status)
                              /\ UNCHANGED <<balance, positions, trades>>
                         ELSE IF RAbs(new_qty) = Zero
                         THEN \* the division by abs(new_qty) raises, after the
                              \* commission was taken
                              /\ balance' = RSub(balance, commission)
                              /\ order' = resolved
                              /\ results' = Append(results, "ZeroDivisionError")
                              /\ UNCHANGED <<positions, trades>>
                         ELSE /\ balance' = RSub(RSub(balance, commission),
                                                 margin_required)
                              /\ positions' = PutPosition(symbol,
                                     [amount |-> new_qty,
                                      entry_price |-> NewAvgPrice(current_qty,
                                          position.entry_price, qty_change, price),
                                      margin |-> RAdd(position.margin,
                                                      margin_required)])
                              /\ trades' = RecordTrade(trades, o.side, price,
                                                       o.quantity, commission)
                              /\ order' = resolved
                              /\ results' = Append(results, order'.status)
                ELSE IF RAbs(current_qty) = Zero
                THEN \* the division by abs(current_qty) raises, before
                     \* anything of the ledger was written
                     /\ order' = resolved
                     /\ results' = Append(results, "ZeroDivisionError")
                     /\ UNCHANGED <<balance, positions, trades>>
                ELSE LET closed_qty == ClosedQty(qty_change, current_qty)
                         remaining_qty == RemainingQty(qty_change, current_qty)
                         pnl == Pnl(price, position.entry_price, closed_qty,
                                    current_qty)
                         margin_released == MarginReleased(position.margin,
                                                closed_qty, current_qty)
                         margin_left == RSub(position.margin, margin_released)
                         credited == RSub(RAdd(margin_released, pnl), commission)
                         closed_balance == RAdd(balance, credited)
                         margin_required == MarginRequired(remaining_qty, price)
                     IN  IF remaining_qty = Zero
                         THEN /\ balance' = closed_balance
                              /\ positions' = PutPosition(symbol,
                                     ReducedPosition(position, new_qty,
                                                     margin_left))
                              /\ trades' = RecordTrade(trades, o.side, price,
                                                       o.quantity, commission)
                              /\ order' = resolved
                              /\ results' = Append(results, order'.status)
                         ELSE IF ReopenAccepted(closed_balance, margin_required)
                         THEN /\ balance' = RSub(closed_balance, margin_required)
                              /\ positions' = PutPosition(symbol,
                                     ReopenedPosition(remaining_qty, qty_change,
                                                      price, margin_required))
                              /\ trades' = RecordTrade(trades, o.side, price,
                                                       o.quantity, commission)
                              /\ order' = resolved
                              /\ results' = Append(results, order'.status)
                         ELSE \* the position dict is the one stored in the map,
                              \* so what was written to it stays written
                              /\ balance' = RollbackBalance(closed_balance,
                                                            credited)
                              /\ positions' = PutPosition(symbol,
                                     [position EXCEPT !.margin =
                                         RollbackMargin(margin_left,
                                                        margin_released)])
                              /\ trades' = trades
                              /\ order' = Rejected(resolved)
                              /\ results' = Append(results, order'.status)

----------------------------------------------------------------------------
(* get_position and get_account_balance of both brokers *)

Assets == {"USDT", "BTC", "BNB"}

\* mutant: the PnL of a short is computed as that of a long
UnrealizedPnlAsLong(amount, entry, current) ==
    IF amount = Zero THEN Zero ELSE RMul(RSub(current, entry), RAbs(amount))

\* unrealized PnL of a position at the reference price
UnrealizedPnl(amount, entry, current) ==
    IF amount = Zero THEN Zero
    ELSE IF RGt(amount, Zero) THEN RMul(RSub(current, entry), amount)
    ELSE RMul(RSub(entry, current), RAbs(amount))

\* FutureBacktestBroker.get_position
FutureGetPosition(symbol) ==
    LET pos == GetPosition(symbol)
    IN  [amount |-> pos.amount,
         entryPrice |-> pos.entry_price,
         margin |-> pos.margin,
         unrealizedPnL |-> UnrealizedPnl(pos.amount, pos.entry_price,
                                         current_price),
         leverage |-> leverage]

\* total_unrealized_pnl += p["unrealizedPnL"] over the symbols of S
RECURSIVE TotalUnrealizedPnl(_, _)
TotalUnrealizedPnl(S, total) ==
    IF S = {} THEN total
    ELSE LET symbol == CHOOSE x \in S : TRUE
         IN  TotalUnrealizedPnl(S \ {symbol},
                 RAdd(total, FutureGetPosition(symbol).unrealizedPnL))

\* FutureBacktestBroker.get_account_balance
FutureGetAccountBalance(a) ==
    IF a = "USDT"
    THEN RAdd(balance, TotalUnrealizedPnl(DOMAIN positions, Zero))
    ELSE Zero

\* SpotBacktestBroker.get_account_balance
SpotGetAccountBalance(a) ==
    IF a = "USDT" THEN balance
    ELSE IF a = "BTC" THEN asset
    ELSE Zero

\* SpotBacktestBroker.get_position
SpotGetPosition(symbol) == [amount |-> asset, entryPrice |-> Zero]

\* mutant: the lookup stores the default record it hands out (setdefault)
PositionsAfterSetdefault(symbol) ==
    IF market_type = "USDT_FUTURE"
    THEN PutPosition(symbol, GetPosition(symbol)) ELSE positions

\* the positions map after a lookup: dict.get does not insert its default
PositionsAfterGet(symbol) == positions

GetPositionCall(symbol) ==
    /\ Running
    /\ reply' = [op |-> "get_position", arg |-> symbol,
                 value |-> IF market_type = "SPOT" THEN SpotGetPosition(symbol)
                           ELSE FutureGetPosition(symbol),
                 price |-> current_price]
    /\ positions' = PositionsAfterGet(symbol)
    /\ UNCHANGED <<mant_dig, market_type, leverage, balance, asset, trades,
                   current_price, order, calls, initial_balance, results>>

GetAccountBalanceCall(a) ==
    /\ Running
    /\ reply' = [op |-> "get_account_balance", arg |-> a,
                 value |-> IF market_type = "SPOT" THEN SpotGetAccountBalance(a)
                           ELSE FutureGetAccountBalance(a),
                 price |-> current_price]
    /\ UNCHANGED <<mant_dig, market_type, leverage, balance, asset, trades,
                   current_price, positions, order, calls, initial_balance,
                   results>>

Orders == {Order(s, sd, q, mt) : s \in Symbols, sd \in Sides,
                                 q \in Quantities, mt \in MarketTypes}

Next ==
    \/ \E p \in Prices : SetPrice(p) /\ UNCHANGED driver
    \/ \E o \in Orders : SpotCreateOrder(o) /\ UNCHANGED driver
    \/ \E o \in Orders : FutureCreateOrder(o) /\ UNCHANGED driver

Spec == Init /\ [][Next]_vars

SpecFloat == InitFloat /\ [][Next]_vars

\* the orders of a strategy that trades one unit at a time
QueryOrders == {o \in Orders : o.quantity = Int2Rat(1)}

\* the backtest with a strategy that also queries the broker
NextQuery ==
    \/ \E p \in Prices : SetPrice(p) /\ UNCHANGED driver
    \/ \E o \in QueryOrders : SpotCreateOrder(o) /\ UNCHANGED driver
    \/ \E o \in QueryOrders : FutureCreateOrder(o) /\ UNCHANGED driver
    \/ \E symbol \in Symbols : GetPositionCall(symbol) /\ UNCHANGED driver
    \/ \E a \in Assets : GetAccountBalanceCall(a) /\ UNCHANGED driver

SpecQuery == Init /\ [][NextQuery]_vars

----------------------------------------------------------------------------
(* GridStrategy of strategies/spot/grid.py. With investment_per_grid = 0,  *)
(* initial_investment = 0 it is the GridStrategy of strategies/grid.py.    *)

One == Int2Rat(1)

\* grid_size values of a configuration
GridSizes == {Zero, Rat(1, 2)}

\* investment_per_grid values of a configuration
InvestmentsPerGrid == {Zero, Int2Rat(2)}

\* initial_investment values of a configuration
InitialInvestments == {Zero, Int2Rat(4)}

Closes == {Int2Rat(c) : c \in CloseValues}

\* the strategies run_backtest constructs for the configurations given
GridConfigs ==
    {GridStrategy("GridStrategy", "BTCUSDT", g, i, One, ii, f) :
        g \in GridSizes, i \in InvestmentsPerGrid,
        ii \in InitialInvestments, f \in BOOLEAN}

\* the strategy of the default configuration with a grid of one half
ServiceConfigs ==
    {GridStrategy("GridStrategy", "BTCUSDT", Rat(1, 2), Zero, One, Zero,
                  FALSE)}

\* truth value of an optional float: None and 0.0 are false
Truthy(x) == x # None /\ x # Zero

\* mutant: the levels are taken around the centre without the step
UpdateGridLevelsNoStep(s) ==
    [s EXCEPT !.active_buy_order = s.last_trade_price,
              !.active_sell_order = s.last_trade_price]

\* self._update_grid_levels()
UpdateGridLevels(s) ==
    [s EXCEPT !.active_buy_order =
                  RMul(s.last_trade_price, RSub(One, s.grid_size)),
              !.active_sell_order =
                  RMul(s.last_trade_price, RAdd(One, s.grid_size))]

\* self._get_trade_quantity(price)
GetTradeQuantity(s, price) ==
    IF RGt(s.investment_per_grid, Zero)
    THEN RDiv(s.investment_per_grid, price) ELSE s.quantity

\* mutant: the latest trade of the log is returned as an order
GetHistoryOrdersFromTrades(symbol, limit) ==
    IF trades = <<>> THEN <<>>
    ELSE <<[price |-> trades[Len(trades)].price]>>

\* broker.get_history_orders(symbol, limit): every broker returns no order
GetHistoryOrders(symbol, limit) == <<>>

\* the base price recovered from the latest order of the history
BasePrice(last_order, current) ==
    IF Truthy(last_order.price) THEN last_order.price ELSE current

\* the notional of the initial buy
InitInvest(s) ==
    IF RGt(s.initial_investment, Zero)
    THEN s.initial_investment ELSE s.investment_per_grid

\* mutant: the sell test compares the close with the centre
SellTriggeredAtCentre(s, close) ==
    Truthy(s.active_sell_order) /\ RGeq(close, s.last_trade_price)

\* the sell test of on_kline, made when the buy test failed
SellTriggered(s, close) ==
    Truthy(s.active_sell_order) /\ RGeq(close, s.active_sell_order)

\* mutant: the sell test comes first
BuyYieldsToSell(s, close) ==
    /\ ~SellTriggered(s, close)
    /\ Truthy(s.active_buy_order)
    /\ RLeq(close, s.active_buy_order)

\* the buy test of on_kline, made first
BuyTriggered(s, close) ==
    Truthy(s.active_buy_order) /\ RLeq(close, s.active_buy_order)

\* mutant: the new centre is the candle's close
RecenterOnClose(s, level, close, status) ==
    UpdateGridLevels([s EXCEPT !.last_trade_price = close])

\* mutant: the grid moves only when the order was filled
RecenterOnFill(s, level, close, status) ==
    IF status = "FILLED"
    THEN UpdateGridLevels([s EXCEPT !.last_trade_price = level]) ELSE s

\* the new centre is the level that triggered; the candle's close and the
\* status of the order create_order returned are not read
Recenter(s, level, close, status) ==
    UpdateGridLevels([s EXCEPT !.last_trade_price = level])

\* mutant: the base price is adopted and the levels are left for later
InitializedWithoutLevels(s, base) == [s EXCEPT !.last_trade_price = base]

\* the first candle: the base price is adopted, the levels are computed
Initialized(s, base) ==
    UpdateGridLevels([s EXCEPT !.last_trade_price = base])

\* statuses the exchange reports for an order; REJECTED also stands for a
\* request that failed
LiveStatuses == {"NEW", "PARTIALLY_FILLED", "FILLED", "CANCELED", "REJECTED"}

\* SpotLiveBroker.create_order: the order goes to the exchange, no ledger
\* is kept and no exception leaves the call
LiveCreateOrder(o) ==
    /\ \E status \in LiveStatuses : order' = [o EXCEPT !.status = status]
    /\ UNCHANGED <<mant_dig, market_type, leverage, balance, asset, trades,
                   current_price, positions, calls, initial_balance, results,
                   reply>>

\* create_order of the broker run_backtest constructed
BacktestCreateOrder(o) == SpotCreateOrder(o) \/ FutureCreateOrder(o)

\* self.broker.create_order(order), on the broker of a live task or on the
\* broker of a backtest
Submit(live, o) == IF live THEN LiveCreateOrder(o) ELSE BacktestCreateOrder(o)

\* GridStrategy.on_kline for a candle of the given close; live tells
\* whether the broker injected is a live one
OnKline(close, live) ==
    LET s == strategy
    IN  IF s.last_trade_price = None
        THEN LET history_orders ==
                     IF s.force_initial_buy THEN <<>>
                     ELSE GetHistoryOrders(s.symbol, 1)
             IN  IF Len(history_orders) > 0
                 THEN /\ strategy' =
                            Initialized(s, BasePrice(history_orders[1], close))
                      /\ UNCHANGED broker
                 ELSE IF RGt(InitInvest(s), Zero)
                 THEN /\ Submit(live, MarketOrder(s.symbol, "BUY",
                                      RDiv(InitInvest(s), close)))
                      /\ strategy' = Initialized(s, close)
                 ELSE /\ strategy' = Initialized(s, close)
                      /\ UNCHANGED broker
        ELSE IF BuyTriggered(s, close)
        THEN /\ Submit(live, MarketOrder(s.symbol, "BUY",
                             GetTradeQuantity(s, s.active_buy_order)))
             /\ strategy' = Recenter(s, s.active_buy_order, close,
                                     order'.status)
        ELSE IF SellTriggered(s, close)
        THEN /\ Submit(live, MarketOrder(s.symbol, "SELL",
                             GetTradeQuantity(s, s.active_sell_order)))
             /\ strategy' = Recenter(s, s.active_sell_order, close,
                                     order'.status)
        ELSE UNCHANGED <<broker, strategy>>

----------------------------------------------------------------------------
(* BacktestService (services/backtest/engine.py) *)

\* names a caller asks run_backtest for
StrategyNames == {"GridStrategy", "SMAStrategy"}

\* StrategyRegistry.get_strategy_class(name) raises ValueError
NotRegistered(name) == name \notin registry

\* mutant: every run is stored under the same identifier
Uuid4Constant(map) == 1

\* uuid.uuid4(): an identifier no earlier run was given
Uuid4(map) == Cardinality(DOMAIN map) + 1

\* self.backtest_results[backtest_id] = result
StoreResult(map, id, result) ==
    [i \in (DOMAIN map) \cup {id} |-> IF i = id THEN result ELSE map[i]]

\* the equity run_backtest reports
FinalBalance ==
    IF market_type = "SPOT" THEN RAdd(balance, RMul(asset, current_price))
    ELSE FutureGetAccountBalance("USDT")

Profit == RSub(FinalBalance, initial_balance)

ProfitPercent ==
    IF RGt(initial_balance, Zero)
    THEN RMul(RDiv(Profit, initial_balance), Int2Rat(100)) ELSE Zero

\* the result dictionary of a run
BacktestResult(id) ==
    [strategy_name |-> strategy.name, symbol |-> strategy.symbol,
     initial_balance |-> initial_balance, final_balance |-> FinalBalance,
     profit |-> Profit, profit_percent |-> ProfitPercent,
     trades |-> trades, backtest_id |-> id]

\* mutant: a run that fails leaves an empty result behind
ResultsAfterFailureStored(map) ==
    StoreResult(map, Uuid4(map), BacktestResult(Uuid4(map)))

\* the result map after a run that raised before its loop
ResultsAfterFailure(map) == map

\* run_backtest up to the head of its loop: the data file is looked up, the
\* broker is constructed, the strategy class is looked up in the registry,
\* the strategy is constructed and started
RunBacktest(s, initial, mtype, file_exists, limit) ==
    /\ pc = "idle"
    /\ runs < limit
    /\ runs' = runs + 1
    /\ UNCHANGED <<mant_dig, registry, task, errors, service>>
    /\ IF ~file_exists \/ NotRegistered(s.name)
       THEN /\ returned' = Returned("run_backtest", 0, s.name, file_exists,
                                     IF ~file_exists THEN "FileNotFoundError"
                                     ELSE "ValueError", {})
            /\ backtest_results' = ResultsAfterFailure(backtest_results)
            /\ UNCHANGED <<market_type, leverage, balance, asset, trades,
                           current_price, positions, order, calls,
                           initial_balance, results, reply, strategy,
                           kline_data, klines, pc>>
       ELSE /\ market_type' = mtype
            /\ leverage' = 1
            /\ initial_balance' = initial
            /\ balance' = initial
            /\ asset' = Zero
            /\ trades' = <<>>
            /\ current_price' = Zero
            /\ positions' = NoPositions
            /\ order' = NoOrder
            /\ calls' = 0
            /\ results' = <<>>
            /\ reply' = NoReply
            /\ strategy' = s
            /\ kline_data' = None
            /\ klines' = <<>>
            /\ pc' = "loop"
            /\ returned' = Returned("run_backtest", 0, s.name, file_exists,
                                    "None", {})
            /\ UNCHANGED backtest_results

\* mutant: the reference price is left at the close of the candle before
ReferencePriceStale(close, previous) == previous

\* broker.current_price = float(row["close"])
ReferencePrice(close, previous) == close

\* the head of the loop: the broker's reference price becomes the close of
\* the next candle of the file
FeedCandle(close) ==
    /\ pc = "loop"
    /\ Len(klines) < MaxCandles
    /\ kline_data' = close
    /\ current_price' = ReferencePrice(close, current_price)
    /\ pc' = "kline"
    /\ UNCHANGED <<mant_dig, market_type, leverage, balance, asset, trades,
                   positions, order, calls, initial_balance, results, reply>>
    /\ UNCHANGED <<strategy, klines, runs, registry, backtest_results,
                   returned, task, errors, service>>

\* await strategy.on_kline(kline_data)
StrategyOnKline ==
    /\ pc = "kline"
    /\ OnKline(kline_data, FALSE)
    /\ klines' = Append(klines, kline_data)
    /\ pc' = "loop"
    /\ UNCHANGED <<kline_data, runs, registry, backtest_results, returned,
                   task, errors, service>>

\* the file is exhausted: the result is computed, stored and returned
FinishRun ==
    /\ pc = "loop"
    /\ LET id == Uuid4(backtest_results)
       IN  /\ backtest_results' =
                 StoreResult(backtest_results, id, BacktestResult(id))
           /\ returned' = Returned("run_backtest", id, strategy.name, TRUE,
                                   "None", {BacktestResult(id)})
    /\ pc' = "idle"
    /\ UNCHANGED <<broker, strategy, kline_data, klines, runs, registry,
                   task, errors, service>>

\* self.backtest_results.get(backtest_id): None is the empty set
ResultFor(map, id) == IF id \in DOMAIN map THEN {map[id]} ELSE {}

\* get_backtest_result(backtest_id)
GetBacktestResult(id) ==
    /\ pc = "idle"
    /\ returned' = Returned("get_backtest_result", id, "None", TRUE, "None",
                            ResultFor(backtest_results, id))
    /\ UNCHANGED <<broker, strategy, kline_data, klines, pc, runs, registry,
                   backtest_results, task, errors, service>>

\* mutant: cancelling takes the latest trade back out of the log
TradesAfterCancelDropsLatest(log) ==
    IF Len(log) = 0 THEN log ELSE SubSeq(log, 1, Len(log) - 1)

\* the trade log after cancel_order: its body is empty
TradesAfterCancel(log) == log

\* cancel_order(order_id)
CancelOrderCall ==
    /\ pc = "loop"
    /\ reply' = [op |-> "cancel_order", arg |-> "None", value |-> Zero,
                 price |-> current_price]
    /\ trades' = TradesAfterCancel(trades)
    /\ UNCHANGED <<mant_dig, market_type, leverage, balance, asset,
                   current_price, positions, order, calls, initial_balance,
                   results>>

\* get_open_orders(symbol): the list returned is empty
GetOpenOrdersCall(symbol) ==
    /\ pc = "loop"
    /\ reply' = [op |-> "get_open_orders", arg |-> symbol, value |-> <<>>,
                 price |-> current_price]
    /\ UNCHANGED <<mant_dig, market_type, leverage, balance, asset, trades,
                   current_price, positions, order, calls, initial_balance,
                   results>>

\* get_history_orders(symbol, limit)
GetHistoryOrdersCall(symbol) ==
    /\ pc = "loop"
    /\ reply' = [op |-> "get_history_orders", arg |-> symbol,
                 value |-> GetHistoryOrders(symbol, 10),
                 price |-> current_price]
    /\ UNCHANGED <<mant_dig, market_type, leverage, balance, asset, trades,
                   current_price, positions, order, calls, initial_balance,
                   results>>

\* a BacktestService just constructed; the registry holds the strategies
\* whose modules were imported
InitService ==
    /\ mant_dig = 0
    /\ market_type = "SPOT"
    /\ leverage = 1
    /\ initial_balance = Zero
    /\ balance = Zero
    /\ results = <<>>
    /\ reply = NoReply
    /\ asset = Zero
    /\ trades = <<>>
    /\ current_price = Zero
    /\ positions = NoPositions
    /\ order = NoOrder
    /\ calls = 0
    /\ strategy = NoStrategy
    /\ kline_data = None
    /\ klines = <<>>
    /\ pc = "idle"
    /\ runs = 0
    /\ registry \in {{}, {"GridStrategy"}}
    /\ backtest_results = <<>>
    /\ returned = NoReturn
    /\ task = "none"
    /\ errors = 0
    /\ NoService

Balances == {Int2Rat(b) : b \in InitialBalances}

\* one run of a Grid backtest
NextGrid ==
    \/ \E s \in GridConfigs, initial \in Balances, mtype \in MarketTypes,
          file_exists \in BOOLEAN :
            RunBacktest(s, initial, mtype, file_exists, 1)
    \/ \E close \in Closes : FeedCandle(close)
    \/ StrategyOnKline
    \/ FinishRun

SpecGrid == InitService /\ [][NextGrid]_vars

\* identifiers a caller asks get_backtest_result for
Identifiers == 1..(MaxRuns + 1)

\* closes of the data files of the service
ServiceCloses == {Int2Rat(2), Int2Rat(8)}

\* a service asked for several runs, whose strategy also makes the calls
\* of the broker interface
NextService ==
    \/ \E s \in ServiceConfigs, name \in StrategyNames,
          mtype \in MarketTypes, file_exists \in BOOLEAN :
            RunBacktest([s EXCEPT !.name = name], Int2Rat(10), mtype,
                        file_exists, MaxRuns)
    \/ \E close \in ServiceCloses : FeedCandle(close)
    \/ StrategyOnKline
    \/ FinishRun
    \/ \E id \in Identifiers : GetBacktestResult(id)
    \/ CancelOrderCall /\ UNCHANGED driver
    \/ \E symbol \in Symbols : GetOpenOrdersCall(symbol) /\ UNCHANGED driver
    \/ \E symbol \in Symbols :
          GetHistoryOrdersCall(symbol) /\ UNCHANGED driver
    \/ \E symbol \in Symbols :
          pc = "loop" /\ GetPositionCall(symbol) /\ UNCHANGED driver
    \/ \E a \in Assets :
          pc = "loop" /\ GetAccountBalanceCall(a) /\ UNCHANGED driver

SpecService == InitService /\ [][NextService]_vars

----------------------------------------------------------------------------
(* TradeService._strategy_loop (services/live/engine.py) *)

\* a close that float() cannot convert: on_kline raises ValueError
Malformed == <<0, 0>>

\* closes of the candles the exchange returns
LiveCloses == {Int2Rat(2), Int2Rat(8), Malformed}

\* the strategies a live task drives
LiveConfigs ==
    {GridStrategy("GridStrategy", "BTCUSDT", Rat(1, 2), i, One, Zero, FALSE) :
        i \in InvestmentsPerGrid}

\* logger.error: one more error in the log
Logged(n) == IF n < MaxErrors THEN n + 1 ELSE n

\* mutant: an error of one iteration ends the loop
TaskAfterErrorFailed == "failed"

\* except Exception of one iteration: the loop goes on to its sleep
TaskAfterError == "sleep"

\* one iteration of the loop: the candles are fetched and the latest one
\* is handed to on_kline; an exception of either is logged. The exchange
\* returns a candle of one of the closes given, limit candles at most
PollOf(closes, limit) ==
    /\ task = "poll"
    /\ UNCHANGED <<pc, runs, registry, backtest_results, returned, service>>
    /\ \/ /\ errors' = Logged(errors)
          /\ task' = TaskAfterError
          /\ UNCHANGED <<broker, strategy, kline_data, klines>>
       \/ /\ task' = "sleep"
          /\ UNCHANGED <<broker, strategy, kline_data, klines, errors>>
       \/ \E close \in closes :
            /\ Len(klines) < limit
            /\ kline_data' = close
            /\ klines' = Append(klines, close)
            /\ IF close = Malformed
               THEN /\ errors' = Logged(errors)
                    /\ task' = TaskAfterError
                    /\ UNCHANGED <<broker, strategy>>
               ELSE /\ OnKline(close, TRUE)
                    /\ task' = "sleep"
                    /\ UNCHANGED errors

\* one iteration of the loop of a task polling an exchange whose candles
\* close at any of LiveCloses
PollIteration == PollOf(LiveCloses, MaxCandles)

\* await asyncio.sleep(2) returns
SleepDone ==
    /\ task = "sleep"
    /\ task' = "poll"
    /\ UNCHANGED <<broker, strategy, kline_data, klines, pc, runs, registry,
                   backtest_results, returned, errors, service>>

\* stop_strategy cancels the task: CancelledError is raised in its sleep
Cancel ==
    /\ task = "sleep"
    /\ task' = "cancelled"
    /\ UNCHANGED <<broker, strategy, kline_data, klines, pc, runs, registry,
                   backtest_results, returned, errors, service>>

\* a live task that has started its strategy
InitLive ==
    /\ mant_dig = 0
    /\ market_type = "SPOT"
    /\ leverage = 1
    /\ initial_balance = Zero
    /\ balance = Zero
    /\ results = <<>>
    /\ reply = NoReply
    /\ asset = Zero
    /\ trades = <<>>
    /\ current_price = Zero
    /\ positions = NoPositions
    /\ order = NoOrder
    /\ calls = 0
    /\ strategy \in LiveConfigs
    /\ kline_data = None
    /\ klines = <<>>
    /\ pc = "idle"
    /\ runs = 0
    /\ registry = {"GridStrategy"}
    /\ backtest_results = <<>>
    /\ returned = NoReturn
    /\ task = "poll"
    /\ errors = 0
    /\ NoService

NextLive == PollIteration \/ SleepDone \/ Cancel

\* the event loop runs a task that can run, and a sleep ends
SpecLive ==
    InitLive /\ [][NextLive]_vars /\ WF_vars(PollIteration) /\ WF_vars(SleepDone)

----------------------------------------------------------------------------
(* A live task on a market that stops moving: after the first candle every *)
(* candle the exchange returns has the same close.                         *)

\* grid_size values strictly between 0 and 1
FlatSizes == {Rat(1, 2), Rat(3, 4)}

\* the strategies driven on the flat market: fixed and notional quantities,
\* no initial buy
FlatConfigs ==
    {GridStrategy("GridStrategy", "BTCUSDT", g, i, One, Zero, FALSE) :
        g \in FlatSizes, i \in InvestmentsPerGrid}

\* the closes the exchange can return next: any close for the first two
\* candles, the close of the latest candle from then on
FlatCloses ==
    IF Len(klines) < 2 THEN Closes ELSE {klines[Len(klines)]}

\* one iteration of the loop on the flat market
PollFlat == PollOf(FlatCloses, MaxFlat)

InitFlat ==
    /\ mant_dig = 0
    /\ market_type = "SPOT"
    /\ leverage = 1
    /\ initial_balance = Zero
    /\ balance = Zero
    /\ results = <<>>
    /\ reply = NoReply
    /\ asset = Zero
    /\ trades = <<>>
    /\ current_price = Zero
    /\ positions = NoPositions
    /\ order = NoOrder
    /\ calls = 0
    /\ strategy \in FlatConfigs
    /\ kline_data = None
    /\ klines = <<>>
    /\ pc = "idle"
    /\ runs = 0
    /\ registry = {"GridStrategy"}
    /\ backtest_results = <<>>
    /\ returned = NoReturn
    /\ task = "poll"
    /\ errors = 0
    /\ NoService

NextFlat == PollFlat \/ SleepDone \/ Cancel

SpecFlat == InitFlat /\ [][NextFlat]_vars

----------------------------------------------------------------------------
(* TradeService (services/live/engine.py) with BaseStrategy.start and stop *)
(* (strategies/base.py) and EventBus.publish (core/event_bus.py). The      *)
(* event loop runs one coroutine at a time: an action is the code one      *)
(* coroutine runs from one suspension to the next. The settings hold the   *)
(* spot test keys.                                                         *)

\* closes of the candles the exchange returns to the tasks: a price, and a
\* close that float() cannot convert
TradeCloses == {Int2Rat(2), Malformed}

\* the strategies start_strategy constructs
TradeConfigs ==
    {GridStrategy("GridStrategy", "BTCUSDT", Rat(1, 2), Int2Rat(2), One, Zero,
                  FALSE)}

\* identifiers a caller asks stop_strategy for; the last one is never issued
StrategyIds == 1..(MaxStarts + 1)

\* event types a coroutine may be subscribed to
EventTypes == {"STRATEGY_STARTED", "STRATEGY_STOPPED"}

\* event_bus.publish(event) suspends its caller: it awaits the tasks it
\* created for the coroutine subscribers of the event type, if there are any
PublishSuspends(event_type) == event_type \in subscribers

\* the entry of active_strategies for a strategy just constructed: the
\* instance, its is_running flag and the status of its info
StrategyInfo(s) == [instance |-> s, is_running |-> FALSE, status |-> "running"]

\* api_key and api_secret, the arguments of _strategy_loop, are assigned in
\* the branch that constructs the spot broker only
ApiKeyBound(mtype) == mtype # "USDT_FUTURE"

\* start_strategy(strategy_name, symbol, params): the strategy s is the one
\* constructed from the name and the parameters
StartStrategy(s, mtype) ==
    /\ Cardinality(DOMAIN active_strategies) < MaxStarts
    /\ UNCHANGED <<mant_dig, leverage, balance, asset, trades, current_price,
                   positions, order, calls, initial_balance, results, reply>>
    /\ UNCHANGED <<strategy, kline_data, klines, pc, runs, registry,
                   backtest_results, task, errors, subscribers, polled>>
    /\ LET strategy_id == Uuid4(active_strategies)
       IN  IF NotRegistered(s.name)
           THEN /\ returned' = Returned("start_strategy", 0, s.name, TRUE,
                                        "ValueError", {})
                /\ UNCHANGED <<market_type, active_strategies, running_tasks,
                               tasks, stops>>
           ELSE IF ~ApiKeyBound(mtype)
           THEN /\ market_type' = mtype
                /\ returned' = Returned("start_strategy", 0, s.name, TRUE,
                                        "UnboundLocalError", {})
                /\ UNCHANGED <<active_strategies, running_tasks, tasks, stops>>
           ELSE /\ market_type' = mtype
                /\ active_strategies' =
                       [id \in DOMAIN active_strategies \cup {strategy_id} |->
                           IF id = strategy_id THEN StrategyInfo(s)
                           ELSE active_strategies[id]]
                /\ running_tasks' = running_tasks \cup {strategy_id}
                /\ tasks' = [id \in DOMAIN tasks \cup {strategy_id} |->
                                IF id = strategy_id THEN "created"
                                ELSE tasks[id]]
                /\ stops' = [id \in DOMAIN stops \cup {strategy_id} |->
                                IF id = strategy_id THEN 0 ELSE stops[id]]
                /\ returned' = Returned("start_strategy", strategy_id, s.name,
                                        TRUE, "None", {})

\* get_strategies(): the info of every entry of the map given
GetStrategies(infos) ==
    {[strategy_id |-> id, strategy_name |-> infos[id].instance.name,
      symbol |-> infos[id].instance.symbol, status |-> infos[id].status] :
        id \in DOMAIN infos}

\* mutant: cancel() is not called
CancelledNever(ts, id) == ts

\* self.running_tasks[strategy_id].cancel(): CancelledError is raised at
\* the suspension the task is at; it polls no more
Cancelled(ts, id) == [ts EXCEPT ![id] = "cancelled"]

\* mutant: the key stays in running_tasks
DeletedNever(keys, id) == keys

\* del self.running_tasks[strategy_id]
Deleted(keys, id) == keys \ {id}

\* mutant: the task is cancelled without looking its key up
InRunningTasksAssumed(id) == TRUE

\* if strategy_id in self.running_tasks
InRunningTasks(id) == id \in running_tasks

\* strategy_info["info"]["status"] = "stopped"
StatusAfterStop(info) == [info EXCEPT !.status = "stopped"]

\* BaseStrategy.stop(): self.is_running = False (it is False already when
\* stop() returns early)
FlagAfterStop(info) == [info EXCEPT !.is_running = FALSE]

\* stop_strategy(strategy_id) after strategy.stop() has returned, infos being
\* active_strategies as stop() left it: the task is cancelled and its key
\* deleted, the status is set; self.running_tasks[strategy_id] of a key that
\* is not there raises KeyError
StopReturns(id, infos) ==
    IF InRunningTasks(id) /\ id \notin running_tasks
    THEN /\ returned' = Returned("stop_strategy", id, "None", TRUE, "KeyError",
                                 {})
         /\ active_strategies' = infos
         /\ UNCHANGED <<running_tasks, tasks>>
    ELSE /\ tasks' = IF InRunningTasks(id) THEN Cancelled(tasks, id)
                     ELSE tasks
         /\ running_tasks' = IF InRunningTasks(id)
                             THEN Deleted(running_tasks, id)
                             ELSE running_tasks
         /\ active_strategies' = [infos EXCEPT ![id] = StatusAfterStop(@)]
         /\ returned' = Returned("stop_strategy", id, "None", TRUE, "None",
                                 {"True"})

\* stop_strategy(strategy_id) up to its return, or up to the suspension of
\* strategy.stop() in event_bus.publish
StopStrategy(id) ==
    /\ UNCHANGED <<broker, strategy, kline_data, klines, pc, runs, registry,
                   backtest_results, task, errors, subscribers, polled>>
    /\ IF id \notin DOMAIN active_strategies
       THEN /\ returned' = Returned("stop_strategy", id, "None", TRUE,
                                    "ValueError", {})
            /\ UNCHANGED <<active_strategies, running_tasks, tasks, stops>>
       ELSE IF active_strategies[id].is_running
               /\ PublishSuspends("STRATEGY_STOPPED")
       THEN /\ active_strategies' =
                  [active_strategies EXCEPT ![id] = FlagAfterStop(@)]
            /\ stops' = [stops EXCEPT ![id] = @ + 1]
            /\ UNCHANGED <<running_tasks, tasks, returned>>
       ELSE /\ StopReturns(id, [active_strategies EXCEPT
                                   ![id] = FlagAfterStop(@)])
            /\ UNCHANGED stops

\* the subscribers of STRATEGY_STOPPED are done: strategy.stop() returns and
\* stop_strategy runs to its return
StopResumed(id) ==
    /\ id \in DOMAIN stops
    /\ stops[id] > 0
    /\ stops' = [stops EXCEPT ![id] = @ - 1]
    /\ StopReturns(id, active_strategies)
    /\ UNCHANGED <<broker, strategy, kline_data, klines, pc, runs, registry,
                   backtest_results, task, errors, subscribers, polled>>

\* the order GridStrategy.on_kline submits for a candle, NoOrder when it
\* submits none
OrderOnKline(s, close) ==
    IF s.last_trade_price = None
    THEN IF /\ \/ s.force_initial_buy
               \/ Len(GetHistoryOrders(s.symbol, 1)) = 0
            /\ RGt(InitInvest(s), Zero)
         THEN MarketOrder(s.symbol, "BUY", RDiv(InitInvest(s), close))
         ELSE NoOrder
    ELSE IF BuyTriggered(s, close)
    THEN MarketOrder(s.symbol, "BUY", GetTradeQuantity(s, s.active_buy_order))
    ELSE IF SellTriggered(s, close)
    THEN MarketOrder(s.symbol, "SELL", GetTradeQuantity(s, s.active_sell_order))
    ELSE NoOrder

\* the strategy object after GridStrategy.on_kline for a candle, given the
\* status of the order it submitted
StrategyOnKlineOf(s, close, status) ==
    IF s.last_trade_price = None
    THEN LET history_orders ==
                 IF s.force_initial_buy THEN <<>>
                 ELSE GetHistoryOrders(s.symbol, 1)
         IN  IF Len(history_orders) > 0
             THEN Initialized(s, BasePrice(history_orders[1], close))
             ELSE Initialized(s, close)
    ELSE IF BuyTriggered(s, close)
    THEN Recenter(s, s.active_buy_order, close, status)
    ELSE IF SellTriggered(s, close)
    THEN Recenter(s, s.active_sell_order, close, status)
    ELSE s

\* one iteration of the loop of the task of a strategy, up to its sleep,
\* infos being active_strategies as the task found it: the candles are
\* fetched and the latest one is handed to on_kline of the instance; an
\* exception of either is logged
Iteration(id, infos) ==
    /\ tasks' = [tasks EXCEPT ![id] = "sleep"]
    /\ UNCHANGED <<strategy, pc, runs, registry, backtest_results, returned,
                   task, running_tasks, stops, subscribers>>
    /\ \/ /\ errors' = Logged(errors)
          /\ active_strategies' = infos
          /\ UNCHANGED <<broker, kline_data, klines, polled>>
       \/ /\ active_strategies' = infos
          /\ UNCHANGED <<broker, kline_data, klines, polled, errors>>
       \/ \E close \in TradeCloses :
            /\ Len(klines) < MaxCandles
            /\ kline_data' = close
            /\ klines' = Append(klines, close)
            /\ polled' = id
            /\ IF close = Malformed
               THEN /\ errors' = Logged(errors)
                    /\ active_strategies' = infos
                    /\ UNCHANGED broker
               ELSE LET s == infos[id].instance
                        o == OrderOnKline(s, close)
                    IN  /\ UNCHANGED errors
                        /\ IF o = NoOrder
                           THEN /\ UNCHANGED broker
                                /\ active_strategies' =
                                     [infos EXCEPT
                                        ![id].instance =
                                          StrategyOnKlineOf(s, close, "NEW")]
                           ELSE /\ LiveCreateOrder(o)
                                /\ active_strategies' =
                                     [infos EXCEPT
                                        ![id].instance =
                                          StrategyOnKlineOf(s, close,
                                                            order'.status)]

\* BaseStrategy.start(): self.is_running = True
FlagAfterStart(info) == [info EXCEPT !.is_running = TRUE]

\* the task runs for the first time: the data client is constructed and
\* strategy.start() sets the flag and publishes STRATEGY_STARTED; if no
\* subscriber suspends it, the task runs on through its first iteration
TaskStart(id) ==
    /\ id \in DOMAIN tasks
    /\ tasks[id] = "created"
    /\ IF PublishSuspends("STRATEGY_STARTED")
       THEN /\ active_strategies' =
                  [active_strategies EXCEPT ![id] = FlagAfterStart(@)]
            /\ tasks' = [tasks EXCEPT ![id] = "start"]
            /\ UNCHANGED <<broker, strategy, kline_data, klines, pc, runs,
                           registry, backtest_results, returned, task,
                           errors, running_tasks, stops, subscribers,
                           polled>>
       ELSE Iteration(id, [active_strategies EXCEPT
                              ![id] = FlagAfterStart(@)])

\* the subscribers of STRATEGY_STARTED are done: the loop is entered and its
\* first iteration runs
TaskStarted(id) ==
    /\ id \in DOMAIN tasks
    /\ tasks[id] = "start"
    /\ Iteration(id, active_strategies)

\* the sleep of the task is over and the event loop runs it: one more
\* iteration
TaskPoll(id) ==
    /\ id \in DOMAIN tasks
    /\ tasks[id] = "poll"
    /\ Iteration(id, active_strategies)

\* await asyncio.sleep(2) is over: the task is ready to run again
TaskSleepDone(id) ==
    /\ id \in DOMAIN tasks
    /\ tasks[id] = "sleep"
    /\ tasks' = [tasks EXCEPT ![id] = "poll"]
    /\ UNCHANGED <<broker, strategy, kline_data, klines, pc, runs, registry,
                   backtest_results, returned, task, errors,
                   active_strategies, running_tasks, stops, subscribers,
                   polled>>

\* a TradeService just constructed, on an event bus with any subscribers
InitTrade ==
    /\ mant_dig = 0
    /\ market_type = "SPOT"
    /\ leverage = 1
    /\ initial_balance = Zero
    /\ balance = Zero
    /\ results = <<>>
    /\ reply = NoReply
    /\ asset = Zero
    /\ trades = <<>>
    /\ current_price = Zero
    /\ positions = NoPositions
    /\ order = NoOrder
    /\ calls = 0
    /\ strategy = NoStrategy
    /\ kline_data = None
    /\ klines = <<>>
    /\ pc = "idle"
    /\ runs = 0
    /\ registry \in {{}, {"GridStrategy"}}
    /\ backtest_results = <<>>
    /\ returned = NoReturn
    /\ task = "none"
    /\ errors = 0
    /\ active_strategies = <<>>
    /\ running_tasks = {}
    /\ tasks = <<>>
    /\ stops = <<>>
    /\ subscribers \in SUBSET EventTypes
    /\ polled = 0

NextTrade ==
    \/ \E s \in TradeConfigs, name \in StrategyNames, mtype \in MarketTypes :
          StartStrategy([s EXCEPT !.name = name], mtype)
    \/ \E id \in StrategyIds : StopStrategy(id)
    \/ \E id \in StrategyIds : StopResumed(id)
    \/ \E id \in StrategyIds : TaskStart(id)
    \/ \E id \in StrategyIds : TaskStarted(id)
    \/ \E id \in StrategyIds : TaskPoll(id)
    \/ \E id \in StrategyIds : TaskSleepDone(id)

SpecTrade == InitTrade /\ [][NextTrade]_vars

----------------------------------------------------------------------------
(* Vocabulary of the properties. A step with calls' = calls + 1 is one     *)
(* create_order call: unprimed variables are the ledger before the call,   *)
(* primed ones the ledger after it, and order' is the order it returned.   *)

CreateOrderStep == calls' = calls + 1

Sign(x) == IF x[1] > 0 THEN 1 ELSE IF x[1] < 0 THEN -1 ELSE 0

\* signed size D of an order
Delta(o) == IF o.side = "BUY" THEN o.quantity ELSE RNeg(o.quantity)

\* |qty| * price / leverage
MarginFor(qty, price) == RDiv(RMul(RAbs(qty), price), <<leverage, 1>>)

\* quantity * price * rate
FeeFor(o, price) == RMul(RMul(o.quantity, price), commission_rate)

FutureOrderStep ==
    /\ CreateOrderStep
    /\ market_type = "USDT_FUTURE"
    /\ order'.market_type = "USDT_FUTURE"

\* the order opens a position or adds to it
OpeningOrder(o) ==
    LET amount == GetPosition(o.symbol).amount
    IN  amount = Zero \/ Sign(amount) = Sign(Delta(o))

\* the order goes against a non-zero position
OpposingOrder(o) ==
    LET amount == GetPosition(o.symbol).amount
    IN  amount # Zero /\ Sign(amount) # Sign(Delta(o))

\* wallet after the whole position of o.symbol is closed at the reference
\* price and the commission of o is paid
WalletAfterFullClose(o) ==
    LET pos == GetPosition(o.symbol)
        pnl == RMul(RMul(RSub(current_price, pos.entry_price), RAbs(pos.amount)),
                    <<Sign(pos.amount), 1>>)
    IN  RAdd(balance, RSub(RAdd(pos.margin, pnl), FeeFor(o, current_price)))

\* the order flips the position through zero and its tail cannot be funded
UnfundedFlip(o) ==
    LET amount == GetPosition(o.symbol).amount
    IN  /\ OpposingOrder(o)
        /\ RGt(o.quantity, RAbs(amount))
        /\ RLt(WalletAfterFullClose(o),
               MarginFor(RSub(o.quantity, RAbs(amount)), current_price))

\* the position of symbol in a positions map
PositionIn(map, symbol) ==
    IF symbol \in DOMAIN map THEN map[symbol] ELSE DefaultPosition

\* the order goes against a non-zero position and is no larger than it
ReducingOrder(o) ==
    /\ OpposingOrder(o)
    /\ RLeq(o.quantity, RAbs(GetPosition(o.symbol).amount))

\* the order goes against a non-zero position and is larger than it
FlippingOrder(o) ==
    /\ OpposingOrder(o)
    /\ RGt(o.quantity, RAbs(GetPosition(o.symbol).amount))

RMin(x, y) == IF RLeq(x, y) THEN x ELSE y

LedgerUnchanged ==
    /\ balance' = balance
    /\ asset' = asset
    /\ positions' = positions
    /\ trades' = trades

----------------------------------------------------------------------------
(* C1: a flip through zero whose reopened tail cannot be funded is         *)
(* returned Rejected, and amount, entry_price and margin of the position,  *)
(* the wallet balance and the trade log are what they were before the call.*)
C1_UnfundedFlipIsAtomic ==
    [][(FutureOrderStep /\ UnfundedFlip(order'))
         => (order'.status = "REJECTED" /\ LedgerUnchanged)]_vars

\* a rejected order larger than the opposite position it met
C1_Witness ==
    /\ market_type = "USDT_FUTURE"
    /\ order.market_type = "USDT_FUTURE"
    /\ order.status = "REJECTED"
    /\ OpposingOrder(order)
    /\ RGt(order.quantity, RAbs(GetPosition(order.symbol).amount))

----------------------------------------------------------------------------
(* C2: after every create_order call, every position has margin = 0       *)
(* exactly when its amount = 0.                                            *)
C2_MarginZeroIffFlat ==
    \A s \in DOMAIN positions :
        (positions[s].margin = Zero) <=> (positions[s].amount = Zero)

----------------------------------------------------------------------------
(* C3: starting from a non-negative balance, the wallet of the futures    *)
(* broker is >= 0 after every create_order call. It is checked on the     *)
(* behaviours all of whose fills were at a positive price, which the      *)
(* claim covers, so that a violation does not rest on a position opened   *)
(* at price 0 (C2).                                                        *)
C3_FutureWalletNonNegative ==
    (/\ market_type = "USDT_FUTURE"
     /\ \A i \in 1..Len(trades) : RGt(trades[i].price, Zero))
        => RGeq(balance, Zero)

----------------------------------------------------------------------------
(* C4: on the spot broker, wallet and inventory are >= 0 after every      *)
(* create_order call.                                                      *)
C4_SpotWalletAndInventoryNonNegative ==
    market_type = "SPOT" => RGeq(balance, Zero) /\ RGeq(asset, Zero)

\* a spot ledger that bought and sold its whole inventory again
C4_Witness ==
    /\ market_type = "SPOT"
    /\ Len(trades) >= 2
    /\ trades[Len(trades)].side = "SELL"
    /\ asset = Zero

----------------------------------------------------------------------------
(* C5: an opening or same-direction order with                            *)
(* wallet < commission + |qty| * price / leverage is returned Rejected:   *)
(* wallet, positions map and trade log are unchanged.                      *)
C5_UnfundedOpenChangesNothing ==
    [][(/\ FutureOrderStep
        /\ OpeningOrder(order')
        /\ RLt(balance, RAdd(FeeFor(order', current_price),
                             MarginFor(order'.quantity, current_price))))
         => (order'.status = "REJECTED" /\ LedgerUnchanged)]_vars

\* a rejected opening order for a symbol that has no entry in the map
C5_Witness ==
    /\ market_type = "USDT_FUTURE"
    /\ order.market_type = "USDT_FUTURE"
    /\ order.status = "REJECTED"
    /\ order.symbol \notin DOMAIN positions
    /\ RGt(order.commission, Zero)

----------------------------------------------------------------------------
(* C6: an order against a non-zero position, no larger than the position, *)
(* is always returned Filled.                                              *)
C6_ReduceIsNeverRejected ==
    [][(/\ FutureOrderStep
        /\ OpposingOrder(order')
        /\ RLeq(order'.quantity, RAbs(GetPosition(order'.symbol).amount)))
         => order'.status = "FILLED"]_vars

\* a full close was filled although it left the wallet negative
C6_Witness ==
    /\ market_type = "USDT_FUTURE"
    /\ order.status = "FILLED"
    /\ order.symbol \in DOMAIN positions
    /\ positions[order.symbol].amount = Zero
    /\ RLt(balance, Zero)

----------------------------------------------------------------------------
(* C7: a spot buy with wallet >= cost + commission is Filled, debits      *)
(* cost + commission, credits the quantity and appends one trade; any     *)
(* other spot buy is Rejected and changes nothing.                         *)
C7_SpotBuyAllOrNothing ==
    [][(/\ CreateOrderStep
        /\ market_type = "SPOT"
        /\ order'.market_type = "SPOT"
        /\ order'.side = "BUY")
         => LET cost == RMul(order'.quantity, current_price)
                commission == RMul(cost, commission_rate)
            IN  IF RGeq(balance, RAdd(cost, commission))
                THEN /\ order'.status = "FILLED"
                     /\ balance' = RSub(balance, RAdd(cost, commission))
                     /\ asset' = RAdd(asset, order'.quantity)
                     /\ Len(trades') = Len(trades) + 1
                     /\ SubSeq(trades', 1, Len(trades)) = trades
                ELSE /\ order'.status = "REJECTED"
                     /\ LedgerUnchanged]_vars

\* a filled buy that cost something, and left inventory
C7_Witness ==
    /\ market_type = "SPOT"
    /\ order.side = "BUY"
    /\ order.status = "FILLED"
    /\ RGt(order.commission, Zero)
    /\ RGt(asset, Zero)

----------------------------------------------------------------------------
(* C8: a spot sell with inventory >= quantity is Filled, debits the       *)
(* quantity, credits cost - commission and appends one trade; any other   *)
(* spot sell is Rejected and changes nothing.                              *)
C8_SpotSellAllOrNothing ==
    [][(/\ CreateOrderStep
        /\ market_type = "SPOT"
        /\ order'.market_type = "SPOT"
        /\ order'.side = "SELL")
         => LET cost == RMul(order'.quantity, current_price)
                commission == RMul(cost, commission_rate)
            IN  IF RGeq(asset, order'.quantity)
                THEN /\ order'.status = "FILLED"
                     /\ asset' = RSub(asset, order'.quantity)
                     /\ balance' = RAdd(balance, RSub(cost, commission))
                     /\ Len(trades') = Len(trades) + 1
                     /\ SubSeq(trades', 1, Len(trades)) = trades
                ELSE /\ order'.status = "REJECTED"
                     /\ LedgerUnchanged]_vars

\* a sell larger than the inventory left was rejected
C8_Witness ==
    /\ market_type = "SPOT"
    /\ order.market_type = "SPOT"
    /\ order.side = "SELL"
    /\ order.status = "REJECTED"
    /\ RGt(asset, Zero)

----------------------------------------------------------------------------
(* C9: an order of another market kind than the broker's is returned      *)
(* Rejected, leaves the ledger unchanged and keeps commission 0.           *)
C9_ForeignOrderHasNoEffect ==
    [][(CreateOrderStep /\ order'.market_type # market_type)
         => (/\ order'.status = "REJECTED"
             /\ order'.commission = Zero
             /\ LedgerUnchanged)]_vars

\* a spot order rejected by a futures broker that holds a position
C9_Witness ==
    /\ market_type = "USDT_FUTURE"
    /\ order.market_type = "SPOT"
    /\ order.status = "REJECTED"
    /\ current_price # Zero
    /\ DOMAIN positions # {}

----------------------------------------------------------------------------
(* C10: an accepted opening or same-direction order of signed size D at   *)
(* price p debits commission + |D|*p/leverage, adds |D|*p/leverage to the *)
(* margin, sets amount = old_amount + D and                               *)
(* entry_price = (|old_amount|*old_entry + |D|*p) / |new_amount|.          *)
C10_AcceptedOpenUpdatesPosition ==
    [][(/\ FutureOrderStep
        /\ OpeningOrder(order')
        /\ order'.status = "FILLED")
         => LET o == order'
                old == GetPosition(o.symbol)
                p == current_price
                new_amount == RAdd(old.amount, Delta(o))
                new == positions'[o.symbol]
            IN  /\ balance' = RSub(RSub(balance, FeeFor(o, p)),
                                    MarginFor(o.quantity, p))
                /\ o.symbol \in DOMAIN positions'
                /\ new.margin = RAdd(old.margin, MarginFor(o.quantity, p))
                /\ new.amount = new_amount
                /\ new.entry_price =
                       RDiv(RAdd(RMul(RAbs(old.amount), old.entry_price),
                                 RMul(o.quantity, p)),
                            RAbs(new_amount))]_vars

\* an add to a position at another price than it was opened at
C10_Witness ==
    /\ market_type = "USDT_FUTURE"
    /\ order.status = "FILLED"
    /\ order.symbol \in DOMAIN positions
    /\ Sign(positions[order.symbol].amount) = Sign(Delta(order))
    /\ RGt(RAbs(positions[order.symbol].amount), order.quantity)
    /\ positions[order.symbol].entry_price # current_price

----------------------------------------------------------------------------
(* C11: a filled reducing order closes closed_qty = min(|D|, |amount|):    *)
(* the margin of the position decreases by margin * closed_qty / |amount| *)
(* and the wallet increases by that released margin plus                   *)
(* (p - entry_price) * closed_qty * direction minus the commission on the  *)
(* whole order quantity.                                                   *)
C11_ReduceSettlesClosedPart ==
    [][(/\ FutureOrderStep
        /\ ReducingOrder(order')
        /\ order'.status = "FILLED")
         => LET o == order'
                old == GetPosition(o.symbol)
                p == current_price
                closed_qty == RMin(o.quantity, RAbs(old.amount))
                released == RMul(old.margin, RDiv(closed_qty, RAbs(old.amount)))
                realized == RMul(RMul(RSub(p, old.entry_price), closed_qty),
                                 <<Sign(old.amount), 1>>)
            IN  /\ PositionIn(positions', o.symbol).margin
                       = RSub(old.margin, released)
                /\ balance' = RAdd(balance,
                                   RSub(RAdd(released, realized), FeeFor(o, p)))]_vars

\* a partial close at another price than the entry price: the order is
\* filled and the position it went against is still there
C11_Witness ==
    /\ market_type = "USDT_FUTURE"
    /\ order.status = "FILLED"
    /\ order.symbol \in DOMAIN positions
    /\ positions[order.symbol].amount # Zero
    /\ Sign(positions[order.symbol].amount) # Sign(Delta(order))
    /\ RGt(positions[order.symbol].margin, Zero)
    /\ trades[Len(trades)].price # positions[order.symbol].entry_price

----------------------------------------------------------------------------
(* C12: the entry_price of a position changes only when a fill increases   *)
(* the absolute size of the exposure, opens or reopens it, or closes it to *)
(* zero: a partial close leaves entry_price unchanged, a close to exactly  *)
(* zero resets entry_price and margin to 0, and a rejected order leaves    *)
(* entry_price unchanged.                                                  *)
C12_EntryPriceFrame ==
    [][(CreateOrderStep /\ market_type = "USDT_FUTURE")
         => \A s \in Symbols :
              LET o == order'
                  old == GetPosition(s)
                  new == PositionIn(positions', s)
                  mine == o.market_type = "USDT_FUTURE" /\ o.symbol = s
              IN  /\ new.entry_price # old.entry_price
                       => /\ o.status = "FILLED"
                          /\ mine
                          /\ \/ RGt(RAbs(new.amount), RAbs(old.amount))
                             \/ Sign(new.amount) # Sign(old.amount)
                  /\ (/\ mine
                      /\ o.status = "FILLED"
                      /\ OpposingOrder(o)
                      /\ RLt(o.quantity, RAbs(old.amount)))
                       => new.entry_price = old.entry_price
                  /\ (/\ mine
                      /\ o.status = "FILLED"
                      /\ OpposingOrder(o)
                      /\ o.quantity = RAbs(old.amount))
                       => (new.entry_price = Zero /\ new.margin = Zero)
                  /\ o.status = "REJECTED"
                       => new.entry_price = old.entry_price]_vars

\* a position opened at a positive price and then closed to exactly zero
C12_Witness ==
    /\ market_type = "USDT_FUTURE"
    /\ order.status = "FILLED"
    /\ DOMAIN positions = {order.symbol}
    /\ Len(trades) = 2
    /\ RGt(trades[1].price, Zero)
    /\ positions[order.symbol].amount = Zero
    /\ positions[order.symbol].entry_price = Zero

----------------------------------------------------------------------------
(* C13: a flip through zero whose tail can be funded (post-close wallet    *)
(* >= remaining_qty * p / leverage) is Filled and leaves the position with *)
(* amount = remaining_qty * sign(D), entry_price = p and                   *)
(* margin = remaining_qty * p / leverage, the wallet being the post-close  *)
(* wallet less that margin; nothing of the old margin or entry price       *)
(* survives.                                                               *)
C13_FundedFlipReopens ==
    [][(/\ FutureOrderStep
        /\ FlippingOrder(order')
        /\ RGeq(WalletAfterFullClose(order'),
                MarginFor(RSub(order'.quantity,
                               RAbs(GetPosition(order'.symbol).amount)),
                          current_price)))
         => LET o == order'
                p == current_price
                remaining_qty == RSub(o.quantity,
                                      RAbs(GetPosition(o.symbol).amount))
            IN  /\ o.status = "FILLED"
                /\ PositionIn(positions', o.symbol) =
                       [amount |-> RMul(remaining_qty, <<Sign(Delta(o)), 1>>),
                        entry_price |-> p,
                        margin |-> MarginFor(remaining_qty, p)]
                /\ balance' = RSub(WalletAfterFullClose(o),
                                   MarginFor(remaining_qty, p))]_vars

\* a filled order left a position in its own direction that is smaller
\* than the order: the rest of the order closed the opposite position
C13_Witness ==
    /\ market_type = "USDT_FUTURE"
    /\ order.status = "FILLED"
    /\ order.symbol \in DOMAIN positions
    /\ Sign(positions[order.symbol].amount) = Sign(Delta(order))
    /\ RLt(RAbs(positions[order.symbol].amount), order.quantity)
    /\ RGt(positions[order.symbol].margin, Zero)
    /\ Len(trades) >= 2
    /\ trades[Len(trades) - 1].price # trades[Len(trades)].price

----------------------------------------------------------------------------
(* C14: on both brokers the trade log is append-only, with one entry per   *)
(* order returned Filled and none per order returned Rejected: its length  *)
(* is the number of Filled results, earlier entries are never changed or   *)
(* removed, and the entry of a fill (a flip included) carries the whole    *)
(* order quantity.                                                         *)
C14_TradeLogAppendOnly ==
    [][/\ IF CreateOrderStep /\ results'[Len(results')] = "FILLED"
          THEN /\ Len(trades') = Len(trades) + 1
               /\ SubSeq(trades', 1, Len(trades)) = trades
               /\ trades'[Len(trades')].quantity = order'.quantity
               /\ trades'[Len(trades')].side = order'.side
          ELSE trades' = trades
       /\ Len(trades') =
             Cardinality({i \in 1..Len(results') : results'[i] = "FILLED"})]_vars

\* a filled order, then a rejected one: one entry in the log
C14_Witness ==
    /\ results = <<"FILLED", "REJECTED">>
    /\ Len(trades) = 1
    /\ order.market_type = market_type

----------------------------------------------------------------------------
(* C15: order status is one-shot: an order is created New, create_order    *)
(* moves it to Filled or Rejected (never New, PartiallyFilled or           *)
(* Canceled), and no later operation of the broker (an order, a price      *)
(* update, a query) changes the status of an order already resolved.       *)
C15_StatusIsOneShot ==
    [][/\ CreateOrderStep
          => /\ \A o \in Orders : o.status = "NEW"
             /\ order'.status \in {"FILLED", "REJECTED"}
             /\ results' = Append(results, order'.status)
       /\ ~CreateOrderStep => (order' = order /\ results' = results)
       /\ \A i \in 1..Len(results) : results'[i] = results[i]]_vars

\* a foreign order was rejected, a later order filled, and a query made
C15_Witness ==
    /\ results = <<"REJECTED", "FILLED">>
    /\ Len(trades) = 1
    /\ reply.op = "get_position"

----------------------------------------------------------------------------
(* C16: for orders of positive quantity and leverage >= 1, create_order of *)
(* both brokers returns normally in every reachable ledger state: each     *)
(* call so far returned its order Filled or Rejected, none raised.         *)
C16_CreateOrderNeverRaises ==
    /\ leverage >= 1
    /\ \A i \in 1..Len(results) : results[i] \in {"FILLED", "REJECTED"}

\* an order of the broker's own kind met a position and was rejected for
\* lack of funds
C16_Witness ==
    /\ market_type = "USDT_FUTURE"
    /\ order.market_type = market_type
    /\ order.status = "REJECTED"
    /\ order.symbol \in DOMAIN positions
    /\ positions[order.symbol].amount # Zero
    /\ results[Len(results)] = "REJECTED"

----------------------------------------------------------------------------
(* A step that is neither an order nor a price update is a query: reply is *)
(* the query made before it, if any was made since the latest order, and   *)
(* reply' the query it makes.                                              *)
QueryStep == calls' = calls /\ current_price' = current_price

\* the step repeats the query made before it
SameQueryAgain ==
    /\ reply.op # "None"
    /\ reply'.op = reply.op
    /\ reply'.arg = reply.arg

\* a query leaves wallet, inventory, positions map and trade log alone
QueryChangesNothing ==
    /\ LedgerUnchanged
    /\ DOMAIN positions' = DOMAIN positions

----------------------------------------------------------------------------
(* C17 as stated: get_position(symbol) or get_account_balance(asset)       *)
(* called twice with no create_order in between returns the same result,   *)
(* and a query changes neither wallet, positions nor trade log. It is     *)
(* checked on the behaviours all of whose fills were at a positive price,  *)
(* so that a violation does not rest on a position opened at price 0 (C2). *)
C17_SameResultUntilNextOrder ==
    [][(QueryStep /\ \A i \in 1..Len(trades) : RGt(trades[i].price, Zero))
         => /\ QueryChangesNothing
            /\ SameQueryAgain => reply'.value = reply.value]_vars

(* C17 amended: called twice with no create_order and no change of the     *)
(* reference price in between, the queries return the same result, and a   *)
(* query changes neither wallet, positions (no entry is created for an     *)
(* unknown symbol) nor trade log.                                          *)
C17_QueriesAreIdempotent ==
    [][QueryStep
         => /\ QueryChangesNothing
            /\ (SameQueryAgain /\ reply.price = current_price)
                 => reply'.value = reply.value]_vars

\* a futures broker with an open position was asked twice, at two
\* reference prices, for a symbol it has no entry for
C17_Witness ==
    /\ market_type = "USDT_FUTURE"
    /\ reply.op = "get_position"
    /\ reply.arg \notin DOMAIN positions
    /\ reply.price = current_price
    /\ \E s \in DOMAIN positions :
         /\ positions[s].amount # Zero
         /\ positions[s].entry_price # current_price
         /\ RGt(positions[s].entry_price, Zero)

----------------------------------------------------------------------------
(* Unrealized PnL of a position at the reference price, by direction. *)
UnrealizedOf(position) ==
    IF Sign(position.amount) = 1
    THEN RMul(RSub(current_price, position.entry_price), position.amount)
    ELSE IF Sign(position.amount) = -1
    THEN RMul(RSub(position.entry_price, current_price), RAbs(position.amount))
    ELSE Zero

RECURSIVE SumOfUnrealized(_)
SumOfUnrealized(S) ==
    IF S = {} THEN Zero
    ELSE LET s == CHOOSE x \in S : TRUE
         IN  RAdd(SumOfUnrealized(S \ {s}), UnrealizedOf(positions[s]))

----------------------------------------------------------------------------
(* C18: on the futures broker get_account_balance("USDT") returns the      *)
(* wallet balance plus the sum over all positions of the unrealized PnL,   *)
(* which is (reference_price - entry_price) * amount for a long,           *)
(* (entry_price - reference_price) * |amount| for a short and 0 when flat; *)
(* for any other asset it returns 0.                                       *)
C18_EquityIsWalletPlusUnrealized ==
    [][(/\ QueryStep
        /\ market_type = "USDT_FUTURE"
        /\ reply'.op = "get_account_balance")
         => reply'.value =
              IF reply'.arg = "USDT"
              THEN RAdd(balance, SumOfUnrealized(DOMAIN positions))
              ELSE Zero]_vars

\* the equity of a broker that holds a long and a short, asked for at
\* another price than they were opened at
C18_Witness ==
    /\ market_type = "USDT_FUTURE"
    /\ reply.op = "get_account_balance"
    /\ reply.arg = "USDT"
    /\ reply.price = current_price
    /\ reply.value # balance
    /\ \E s, t \in DOMAIN positions :
         /\ Sign(positions[s].amount) = 1
         /\ Sign(positions[t].amount) = -1
         /\ positions[s].entry_price # current_price
         /\ positions[t].entry_price # current_price

----------------------------------------------------------------------------
(* Sums over the entries of one side of a trade log. *)

\* what a trade moved: its quantity, or the cash a BUY took from the
\* wallet (cost + commission) and a SELL gave to it (cost - commission)
TradeAmount(t, what) ==
    IF what = "quantity" THEN t.quantity
    ELSE IF t.side = "BUY" THEN RAdd(t.cost, t.commission)
    ELSE RSub(t.cost, t.commission)

RECURSIVE SumOfTrades(_, _, _)
SumOfTrades(log, side, what) ==
    IF log = <<>> THEN Zero
    ELSE RAdd(SumOfTrades(SubSeq(log, 1, Len(log) - 1), side, what),
              IF log[Len(log)].side = side
              THEN TradeAmount(log[Len(log)], what) ELSE Zero)

----------------------------------------------------------------------------
(* C19: after any sequence of orders on the spot broker,                   *)
(* wallet = initial wallet - sum over BUY entries of (cost + commission)   *)
(* + sum over SELL entries of (cost - commission), and                     *)
(* inventory = sum of BUY quantities - sum of SELL quantities; rejected    *)
(* orders contribute nothing.                                              *)
C19_SpotBalanceConservation ==
    market_type = "SPOT"
        => /\ balance = RAdd(RSub(initial_balance,
                                  SumOfTrades(trades, "BUY", "cash")),
                             SumOfTrades(trades, "SELL", "cash"))
           /\ asset = RSub(SumOfTrades(trades, "BUY", "quantity"),
                           SumOfTrades(trades, "SELL", "quantity"))

\* a round trip: two units bought at one price, one sold at another, and
\* an order rejected before
C19_Witness ==
    /\ market_type = "SPOT"
    /\ Len(trades) = 2
    /\ trades[1].side = "BUY"
    /\ trades[2].side = "SELL"
    /\ trades[1].price # trades[2].price
    /\ RGt(trades[1].quantity, trades[2].quantity)
    /\ RGt(balance, initial_balance)

----------------------------------------------------------------------------
(* C20: from a flat position, a filled open of quantity q at price p1      *)
(* followed by a filled opposite order of the same quantity q at price p2  *)
(* returns the position to amount 0, entry_price 0 and margin 0, and the   *)
(* wallet ends at initial + (p2 - p1) * q * direction - commission1        *)
(* - commission2. The two fills are the only ones of a broker that has one *)
(* entry in its positions map, so both are of that symbol and the first    *)
(* met the flat position of a new broker; orders rejected before, between  *)
(* or after them change nothing.                                           *)
C20_OpenCloseRoundTrip ==
    (/\ market_type = "USDT_FUTURE"
     /\ Len(trades) = 2
     /\ Cardinality(DOMAIN positions) = 1
     /\ trades[1].side # trades[2].side
     /\ trades[1].quantity = trades[2].quantity)
        => LET open == trades[1]
               close == trades[2]
               direction == IF open.side = "BUY" THEN 1 ELSE -1
               realized == RMul(RMul(RSub(close.price, open.price),
                                     open.quantity),
                                <<direction, 1>>)
           IN  /\ \A s \in DOMAIN positions :
                    positions[s] = [amount |-> Zero, entry_price |-> Zero,
                                    margin |-> Zero]
               /\ balance = RSub(RSub(RAdd(initial_balance, realized),
                                      open.commission),
                                 close.commission)

\* a short opened with margin and closed at a loss
C20_Witness ==
    /\ market_type = "USDT_FUTURE"
    /\ Len(trades) = 2
    /\ Cardinality(DOMAIN positions) = 1
    /\ trades[1].side = "SELL"
    /\ trades[2].side = "BUY"
    /\ trades[1].quantity = trades[2].quantity
    /\ RGt(trades[1].price, Zero)
    /\ RGt(trades[2].price, trades[1].price)
    /\ RLt(balance, initial_balance)

----------------------------------------------------------------------------
(* Vocabulary of the properties of the driver and of the services.         *)

\* the step is made inside one run: no broker is constructed by it
WithinRun == runs' = runs

\* the step hands one candle to the strategy
CandleStep == Len(klines') = Len(klines) + 1

\* the strategy has seen its first candle
IsInitialized(s) == s.last_trade_price # None

----------------------------------------------------------------------------
(* C21: on a simulated broker the ledger (wallet, inventory, positions,    *)
(* trade log) changes only inside create_order: cancel_order,              *)
(* get_open_orders (whose list is always empty), get_history_orders,       *)
(* get_position and get_account_balance leave it unchanged, and a candle   *)
(* on which the Grid driver submits no order leaves it unchanged.          *)
C21_LedgerChangesOnlyInCreateOrder ==
    [][WithinRun =>
        /\ ~CreateOrderStep => QueryChangesNothing
        /\ reply'.op = "get_open_orders" => reply'.value = <<>>]_vars

\* a spot run with one fill in which three candles brought one order only,
\* and cancel_order was called after the fill
C21_Witness ==
    /\ pc = "loop"
    /\ Len(klines) = 3
    /\ calls = 1
    /\ Len(trades) = 1
    /\ reply.op = "cancel_order"

----------------------------------------------------------------------------
(* C22: grid re-centering. When a candle's close is <= buy_level the       *)
(* driver submits a buy and its new center is the previous buy_level, not  *)
(* the candle's close, with both levels recomputed from it; when the       *)
(* close is >= sell_level (and the buy did not trigger) it submits a sell  *)
(* and re-centers on the previous sell_level.                              *)
C22_RecenterOnTriggeredLevel ==
    [][(CandleStep /\ IsInitialized(strategy)) =>
        LET s == strategy
            buys == RLeq(kline_data, s.active_buy_order)
            sells == ~buys /\ RGeq(kline_data, s.active_sell_order)
            level == IF buys THEN s.active_buy_order ELSE s.active_sell_order
        IN  (buys \/ sells) =>
                /\ CreateOrderStep
                /\ order'.side = (IF buys THEN "BUY" ELSE "SELL")
                /\ strategy'.last_trade_price = level
                /\ strategy'.active_buy_order =
                       RMul(level, RSub(One, s.grid_size))
                /\ strategy'.active_sell_order =
                       RMul(level, RAdd(One, s.grid_size))]_vars

\* center 4 with step 1/2 (levels 2 and 6), then a close of 1: a buy, and
\* the center is 2, not 1, with levels 1 and 3
C22_Witness ==
    /\ klines = <<Int2Rat(4), Int2Rat(1)>>
    /\ order.side = "BUY"
    /\ strategy.last_trade_price = Int2Rat(2)
    /\ strategy.active_buy_order = Int2Rat(1)
    /\ strategy.active_sell_order = Int2Rat(3)

----------------------------------------------------------------------------
(* C23: after the first candle and after every later candle the driver's   *)
(* state satisfies buy_level = center * (1 - grid_step) and sell_level =   *)
(* center * (1 + grid_step); with 0 < grid_step < 1 and a positive center  *)
(* this gives buy_level < center < sell_level in every reachable state.    *)
C23_LevelsFollowCenter ==
    LET s == strategy
    IN  /\ Len(klines) >= 1 => IsInitialized(s)
        /\ IsInitialized(s) =>
            /\ s.active_buy_order =
                   RMul(s.last_trade_price, RSub(One, s.grid_size))
            /\ s.active_sell_order =
                   RMul(s.last_trade_price, RAdd(One, s.grid_size))
            /\ (/\ RLt(Zero, s.grid_size)
                /\ RLt(s.grid_size, One)
                /\ RGt(s.last_trade_price, Zero))
                   => /\ RLt(s.active_buy_order, s.last_trade_price)
                      /\ RLt(s.last_trade_price, s.active_sell_order)

\* step 1/2 after a buy and a sell: center 3 between the levels 3/2 and 9/2
C23_Witness ==
    /\ klines = <<Int2Rat(4), Int2Rat(1), Int2Rat(8)>>
    /\ strategy.grid_size = Rat(1, 2)
    /\ strategy.last_trade_price = Int2Rat(3)
    /\ strategy.active_buy_order = Rat(3, 2)
    /\ strategy.active_sell_order = Rat(9, 2)

----------------------------------------------------------------------------
(* C24: after initialization each candle makes the driver submit at most   *)
(* one order: a buy if close <= buy_level, otherwise a sell if close >=    *)
(* sell_level, otherwise nothing. One candle never produces both a buy and *)
(* a sell, and a close far beyond a level still produces one order and one *)
(* re-centering step: the center moves to the level that triggered, not    *)
(* further.                                                                *)
C24_AtMostOneOrderPerCandle ==
    [][(CandleStep /\ IsInitialized(strategy)) =>
        LET s == strategy
            buys == RLeq(kline_data, s.active_buy_order)
            sells == ~buys /\ RGeq(kline_data, s.active_sell_order)
        IN  /\ calls' = calls \/ calls' = calls + 1
            /\ Len(results') = Len(results) + (calls' - calls)
            /\ Len(trades') <= Len(trades) + 1
            /\ buys => /\ CreateOrderStep
                       /\ order'.side = "BUY"
                       /\ strategy'.last_trade_price = s.active_buy_order
            /\ sells => /\ CreateOrderStep
                        /\ order'.side = "SELL"
                        /\ strategy'.last_trade_price = s.active_sell_order
            /\ (~buys /\ ~sells) => /\ calls' = calls
                                   /\ order' = order
                                   /\ strategy' = s]_vars

\* center 8 with step 1/2 (levels 4 and 12) and a close of 1, below the
\* next buy level 2 as well: one order, and the center is 4
C24_Witness ==
    /\ klines = <<Int2Rat(8), Int2Rat(1)>>
    /\ calls = 1
    /\ order.side = "BUY"
    /\ strategy.last_trade_price = Int2Rat(4)
    /\ strategy.active_buy_order = Int2Rat(2)
    /\ RLt(kline_data, strategy.active_buy_order)

----------------------------------------------------------------------------
(* The grid a strategy reaches from its configuration and the closes it    *)
(* was handed, computed without any ledger.                                *)

\* the strategy as constructed: its configuration, no grid yet
Unstarted(s) ==
    [s EXCEPT !.last_trade_price = None, !.active_buy_order = None,
              !.active_sell_order = None]

\* the grid around a center
GridAround(s, center) == UpdateGridLevels([s EXCEPT !.last_trade_price = center])

\* the grid after one more candle
GridAfterCandle(s, close) ==
    IF s.last_trade_price = None THEN GridAround(s, close)
    ELSE IF BuyTriggered(s, close) THEN GridAround(s, s.active_buy_order)
    ELSE IF SellTriggered(s, close) THEN GridAround(s, s.active_sell_order)
    ELSE s

RECURSIVE GridAfter(_, _)
\* the grid after a sequence of candles
GridAfter(s, closes) ==
    IF Len(closes) = 0 THEN s
    ELSE GridAfterCandle(GridAfter(s, SubSeq(closes, 1, Len(closes) - 1)),
                         closes[Len(closes)])

----------------------------------------------------------------------------
(* C25: the driver re-centers after a trigger whether the broker returned  *)
(* the order Filled or Rejected: in simulation two runs over the same      *)
(* candle sequence with different ledger states (different initial         *)
(* balances, different brokers) go through identical sequences of center,  *)
(* buy_level and sell_level. After every candle of every run the grid is   *)
(* the one determined by the configuration and the closes seen so far.     *)
C25_GridIsIndependentOfLedger ==
    strategy = GridAfter(Unstarted(strategy), klines)

\* a run without funds: the buy triggered by the close of 1 was rejected,
\* and the center moved from 4 to 2 all the same
C25_Witness ==
    /\ klines = <<Int2Rat(4), Int2Rat(1)>>
    /\ initial_balance = Zero
    /\ calls = 1
    /\ order.side = "BUY"
    /\ order.status = "REJECTED"
    /\ trades = <<>>
    /\ strategy.last_trade_price = Int2Rat(2)

----------------------------------------------------------------------------
----------------------------------------------------------------------------
(* C27: in a backtest candles are processed strictly in sequence, one at a *)
(* time: a candle is taken only when the one before it was handed to the   *)
(* driver and its on_kline returned. Before the driver sees candle k the   *)
(* broker's reference price is set to candle k's close, so every order     *)
(* submitted while processing candle k is priced at candle k's close and   *)
(* is fully resolved (Filled with the ledger updated, or Rejected) before  *)
(* candle k+1 is processed.                                                *)
C27_OneCandleAtATime ==
    [][WithinRun =>
        /\ pc' = "kline" =>
              /\ pc = "loop"
              /\ klines' = klines
              /\ current_price' = kline_data'
        /\ pc = "kline" =>
              /\ current_price = kline_data
              /\ CandleStep
              /\ klines' = Append(klines, kline_data)
              /\ pc' = "loop"
              /\ current_price' = current_price
              /\ CreateOrderStep =>
                    /\ order'.status \in {"FILLED", "REJECTED"}
                    /\ results' = Append(results, order'.status)
                    /\ order'.status = "FILLED" =>
                          /\ Len(trades') = Len(trades) + 1
                          /\ trades'[Len(trades')].price = kline_data
                          /\ SubSeq(trades', 1, Len(trades)) = trades
                    /\ order'.status = "REJECTED" => LedgerUnchanged
        /\ CandleStep => pc = "kline"]_vars

\* closes 8, 2, 8 with step 1/2: the buy was filled at 2 and the sell at 8,
\* each at the close of its candle
C27_Witness ==
    /\ pc = "loop"
    /\ klines = <<Int2Rat(8), Int2Rat(2), Int2Rat(8)>>
    /\ Len(trades) = 2
    /\ trades[1].side = "BUY"
    /\ trades[1].price = Int2Rat(2)
    /\ trades[2].side = "SELL"
    /\ trades[2].price = Int2Rat(8)
    /\ results = <<"FILLED", "FILLED">>

----------------------------------------------------------------------------
(* Steps of the BacktestService. *)

\* run_backtest returns its result
RunReturns == pc = "loop" /\ pc' = "idle"

\* a get_backtest_result call
GetResultStep == pc = "idle" /\ runs' = runs

\* every result stored before the step is stored, unchanged, after it
StoredResultsKept ==
    \A id \in DOMAIN backtest_results :
        /\ id \in DOMAIN backtest_results'
        /\ backtest_results'[id] = backtest_results[id]

----------------------------------------------------------------------------
(* C28: each successful run_backtest stores exactly one result under a     *)
(* freshly generated identifier; results already stored are never modified *)
(* or removed by later runs; get_backtest_result returns the stored result *)
(* for a known identifier and None for an unknown one.                     *)
C28_ResultsAreStoredOnce ==
    [][/\ StoredResultsKept
       /\ IF RunReturns
          THEN LET id == returned'.arg
               IN  /\ id \notin DOMAIN backtest_results
                   /\ DOMAIN backtest_results' =
                          (DOMAIN backtest_results) \cup {id}
                   /\ backtest_results'[id].backtest_id = id
                   /\ backtest_results'[id].trades = trades
                   /\ returned'.raised = "None"
                   /\ returned'.value = {backtest_results'[id]}
          ELSE backtest_results' = backtest_results
       /\ GetResultStep =>
             returned'.value =
                 IF returned'.arg \in DOMAIN backtest_results
                 THEN {backtest_results[returned'.arg]} ELSE {}]_vars

\* two runs were stored, with different outcomes, and the result of the
\* first is what get_backtest_result returns for its identifier
C28_Witness ==
    /\ Cardinality(DOMAIN backtest_results) = 2
    /\ backtest_results[1].final_balance # backtest_results[2].final_balance
    /\ Len(backtest_results[1].trades) = 1
    /\ returned.op = "get_backtest_result"
    /\ returned.arg = 1
    /\ returned.value = {backtest_results[1]}

----------------------------------------------------------------------------
----------------------------------------------------------------------------
(* C30: in the live polling loop an exception raised while fetching        *)
(* candles or inside strategy.on_kline during one iteration is caught and  *)
(* logged and the loop goes on to the next poll: as long as the task is    *)
(* not cancelled it polls infinitely often, however many iterations fail.  *)
C30_LoopSurvivesFailedIterations ==
    /\ [][errors' # errors => (task = "poll" /\ task' = "sleep")]_vars
    /\ <>(task = "cancelled") \/ []<><<PollIteration>>_vars

\* the loop is about to poll again after a candle on_kline could not read
\* and a fetch that failed; the candle after them initialized the strategy
C30_Witness ==
    /\ task = "poll"
    /\ errors = 2
    /\ klines = <<Malformed, Int2Rat(2)>>
    /\ strategy.last_trade_price = Int2Rat(2)

----------------------------------------------------------------------------
(* Vocabulary of the properties of the live TradeService.                  *)

\* the strategies start_strategy has recorded
Started == DOMAIN active_strategies

\* a stop_strategy call for the strategy has returned: only its last
\* statements set the status "stopped"
StopCompleted(id) ==
    id \in Started /\ active_strategies[id].status = "stopped"

\* the step hands a candle to on_kline of the strategy
Delivery(id) == CandleStep /\ polled' = id

\* the step is the return of a call of the TradeService, or its raise
CallReturns(op) == returned' # returned /\ returned'.op = op

----------------------------------------------------------------------------
(* C31: once stop_strategy(id) has returned for a strategy that was        *)
(* running, its polling task is cancelled and its key is gone from         *)
(* running_tasks, the is_running flag of the strategy is False and its     *)
(* status is "stopped", and no candle is handed to its on_kline any more.  *)
C31_StoppedStrategyGetsNoCandle ==
    [][\A id \in StrategyIds :
          /\ (id \in DOMAIN active_strategies'
              /\ active_strategies'[id].status = "stopped")
                 => /\ tasks'[id] = "cancelled"
                    /\ id \notin running_tasks'
                    /\ ~active_strategies'[id].is_running
          /\ StopCompleted(id) => ~Delivery(id)]_vars

\* a strategy that was handed two candles by its task and was stopped then,
\* with subscribers that made start() and stop() wait
C31_Witness ==
    /\ subscribers = EventTypes
    /\ StopCompleted(1)
    /\ tasks[1] = "cancelled"
    /\ polled = 1
    /\ Len(klines) = 2
    /\ active_strategies[1].instance.last_trade_price # None

----------------------------------------------------------------------------
(* Vocabulary of the conservation of the derivative ledger.                *)

RECURSIVE MarginOver(_, _)
\* margin held by the positions of the symbols S of a positions map
MarginOver(map, S) ==
    IF S = {} THEN Zero
    ELSE LET symbol == CHOOSE x \in S : TRUE
         IN  RAdd(map[symbol].margin, MarginOver(map, S \ {symbol}))

\* margin held over all positions of a positions map
MarginHeld(map) == MarginOver(map, DOMAIN map)

\* realized PnL of an order filled at the reference price: that of the part
\* of the position it closes, nothing when it opens or adds
RealizedBy(o) ==
    LET old == GetPosition(o.symbol)
        closed_qty == RMin(o.quantity, RAbs(old.amount))
    IN  IF OpposingOrder(o)
        THEN RMul(RMul(RSub(current_price, old.entry_price), closed_qty),
                  <<Sign(old.amount), 1>>)
        ELSE Zero

----------------------------------------------------------------------------
(* C32: derivative conservation: wallet balance plus the margin held over  *)
(* all positions equals the initial balance plus the realized PnL of the   *)
(* filled reducing and flipping orders minus the commissions of the trade  *)
(* log. It starts at the initial balance with an empty log; every filled   *)
(* order adds its realized PnL, takes the commission of the entry it       *)
(* appends to the log; a rejected order, a rolled-back flip included, and  *)
(* a change of the reference price leave sum and log as they are.          *)
C32_DerivativeConservation ==
    /\ (market_type = "USDT_FUTURE"
          => /\ RAdd(balance, MarginHeld(positions)) = initial_balance
             /\ trades = <<>>)
    /\ [][market_type = "USDT_FUTURE"
            => LET before == RAdd(balance, MarginHeld(positions))
                   after == RAdd(balance', MarginHeld(positions'))
               IN  IF CreateOrderStep /\ order'.status = "FILLED"
                   THEN /\ Len(trades') = Len(trades) + 1
                        /\ SubSeq(trades', 1, Len(trades)) = trades
                        /\ after =
                             RSub(RAdd(before, RealizedBy(order')),
                                  trades'[Len(trades')].commission)
                   ELSE /\ trades' = trades
                        /\ after = before]_vars

\* a flip that was rolled back: the order is larger than the position it
\* went against and was rejected, after the fill that opened the position
C32_Witness ==
    /\ market_type = "USDT_FUTURE"
    /\ results = <<"FILLED", "REJECTED">>
    /\ order.market_type = "USDT_FUTURE"
    /\ order.symbol \in DOMAIN positions
    /\ positions[order.symbol].amount # Zero
    /\ Sign(positions[order.symbol].amount) # Sign(Delta(order))
    /\ RGt(order.quantity, RAbs(positions[order.symbol].amount))
    /\ positions[order.symbol].entry_price # current_price
    /\ RGt(current_price, Zero)

----------------------------------------------------------------------------
(* Vocabulary of the equity of the derivative ledger.                      *)

RECURSIVE UnrealizedOver(_, _, _)
\* unrealized PnL, at a reference price, of the positions of the symbols S
\* of a positions map
UnrealizedOver(map, S, price) ==
    IF S = {} THEN Zero
    ELSE LET symbol == CHOOSE x \in S : TRUE
         IN  RAdd(UnrealizedOver(map, S \ {symbol}, price),
                  UnrealizedPnl(map[symbol].amount, map[symbol].entry_price,
                                price))

\* what get_account_balance("USDT") returns on a futures ledger
EquityOf(bal, map, price) == RAdd(bal, UnrealizedOver(map, DOMAIN map, price))

----------------------------------------------------------------------------
(* C33: the equity get_account_balance("USDT") reports on the derivative   *)
(* broker is the net worth of the account: right after a filled opening    *)
(* order, the reference price being the same, it is the equity before the  *)
(* order minus the commission of the order; the margin reserved does not   *)
(* change it. Stated for fills at a positive reference price.              *)
C33_EquityIsNetWorth ==
    /\ [](market_type = "USDT_FUTURE"
            => FutureGetAccountBalance("USDT")
                 = EquityOf(balance, positions, current_price))
    /\ [][(/\ FutureOrderStep
           /\ OpeningOrder(order')
           /\ order'.status = "FILLED"
           /\ RGt(current_price, Zero))
            => /\ current_price' = current_price
               /\ EquityOf(balance', positions', current_price')
                    = RSub(EquityOf(balance, positions, current_price),
                           order'.commission)]_vars

----------------------------------------------------------------------------
(* C34: every order the Grid driver submits carries the market kind Spot,  *)
(* the default of Order. In a backtest run with market_type USDT_FUTURE    *)
(* every order is therefore Rejected: whatever the candles, the positions  *)
(* and the trade log stay empty, the wallet stays the initial balance, and *)
(* the final balance the run reports is the initial balance.               *)
C34_GridOrdersAreSpotOrders ==
    /\ order # NoOrder => order.market_type = "SPOT"
    /\ market_type = "USDT_FUTURE"
         => /\ order # NoOrder => order.status = "REJECTED"
            /\ \A i \in 1..Len(results) : results[i] = "REJECTED"
            /\ positions = NoPositions
            /\ trades = <<>>
            /\ balance = initial_balance
            /\ FinalBalance = initial_balance
            /\ \A result \in returned.value :
                  /\ result.final_balance = result.initial_balance
                  /\ result.trades = <<>>
                  /\ result.profit = Zero

\* a futures run is over after an initial buy and a triggered order, both
\* rejected, of a driver whose wallet could have paid them
C34_Witness ==
    /\ market_type = "USDT_FUTURE"
    /\ pc = "idle"
    /\ returned.value # {}
    /\ Len(results) >= 2
    /\ order.status = "REJECTED"
    /\ order.side = "SELL"
    /\ RGt(initial_balance, Int2Rat(3))
    /\ Len(klines) = MaxCandles

----------------------------------------------------------------------------
----------------------------------------------------------------------------
(* Vocabulary of the flat market.                                          *)

\* the step hands the strategy, already centred, a candle of the flat market
FlatStep == CandleStep /\ IsInitialized(strategy)

----------------------------------------------------------------------------
(* C36: grid quiescence. With 0 < grid_size < 1 and a positive centre, if  *)
(* every later candle has the same close c > 0, the driver submits         *)
(* finitely many orders, all on the same side, and then never triggers     *)
(* again. A buy trigger moves the centre down to the buy level, which is   *)
(* not below c, and the new sell level is strictly above c; a sell trigger *)
(* moves the centre up to the sell level, which is not above c, and the    *)
(* new buy level is strictly below c: the opposite side cannot trigger at  *)
(* c, every order follows one of the same side, a candle that triggers     *)
(* nothing leaves the grid as it was, and the last candle of the longest   *)
(* sequence triggers nothing.                                              *)
C36_GridQuiescence ==
    [][FlatStep =>
         LET c == kline_data'
             s == strategy
             t == strategy'
         IN  /\ RGt(s.last_trade_price, Zero)
             /\ BuyTriggered(s, c)
                  => /\ order'.side = "BUY"
                     /\ t.last_trade_price = s.active_buy_order
                     /\ RLt(t.last_trade_price, s.last_trade_price)
                     /\ RGeq(t.last_trade_price, c)
                     /\ RGt(t.active_sell_order, c)
                     /\ ~SellTriggered(t, c)
             /\ (~BuyTriggered(s, c) /\ SellTriggered(s, c))
                  => /\ order'.side = "SELL"
                     /\ t.last_trade_price = s.active_sell_order
                     /\ RGt(t.last_trade_price, s.last_trade_price)
                     /\ RLeq(t.last_trade_price, c)
                     /\ RLt(t.active_buy_order, c)
                     /\ ~BuyTriggered(t, c)
             /\ (~BuyTriggered(s, c) /\ ~SellTriggered(s, c))
                  => /\ t = s
                     /\ order' = order
                     /\ ~BuyTriggered(t, c) /\ ~SellTriggered(t, c)
             /\ (Len(klines) >= 2 /\ order # NoOrder /\ order' # NoOrder)
                  => order'.side = order.side
             /\ Len(klines') = MaxFlat
                  => ~BuyTriggered(s, c) /\ ~SellTriggered(s, c)]_vars

\* the centre 1 was taken up to the close of 8 by five sell triggers, and
\* the sixth candle of that close triggered nothing
C36_Witness ==
    /\ Len(klines) >= 7
    /\ klines[1] = One
    /\ klines[2] = Int2Rat(8)
    /\ strategy.grid_size = Rat(1, 2)
    /\ order.side = "SELL"
    /\ RGt(strategy.active_sell_order, Int2Rat(8))
    /\ RLt(strategy.active_buy_order, Int2Rat(8))
    /\ task = "sleep"

----------------------------------------------------------------------------
(* C37: in TradeService, wherever control can pass to another task, the    *)
(* keys of running_tasks are keys of active_strategies and the status      *)
(* recorded for a strategy is "running" exactly when its id is a key of    *)
(* running_tasks; no entry is ever removed from active_strategies, so      *)
(* get_strategies goes on listing the strategies that were stopped.        *)
C37_RunningTasksMatchStatus ==
    /\ [](/\ running_tasks \subseteq DOMAIN active_strategies
          /\ \A id \in DOMAIN active_strategies :
                /\ active_strategies[id].status = "running"
                     <=> id \in running_tasks
                /\ active_strategies[id].status \in {"running", "stopped"}
                /\ \E info \in GetStrategies(active_strategies) :
                      /\ info.strategy_id = id
                      /\ info.status = active_strategies[id].status)
    /\ [][/\ DOMAIN active_strategies \subseteq DOMAIN active_strategies'
          /\ \A info \in GetStrategies(active_strategies) :
                \E after \in GetStrategies(active_strategies') :
                   /\ after.strategy_id = info.strategy_id
                   /\ after.strategy_name = info.strategy_name
                   /\ after.symbol = info.symbol
                   /\ info.status = "stopped" => after.status = "stopped"]_vars

\* a strategy that polled was stopped with no subscriber on the bus: its
\* key is gone from running_tasks and it is listed as stopped
C37_Witness ==
    /\ subscribers = {}
    /\ running_tasks = {}
    /\ returned.op = "stop_strategy"
    /\ returned.raised = "None"
    /\ \E info \in GetStrategies(active_strategies) :
          info.strategy_id = 1 /\ info.status = "stopped"
    /\ Len(klines) >= 1

----------------------------------------------------------------------------
(* C38: stop_strategy of an unknown id raises ValueError and changes       *)
(* nothing. stop_strategy of a known id, be the strategy running, stopped  *)
(* already, or being stopped by a call that is suspended, returns True     *)
(* without an error and leaves the status "stopped", the key out of        *)
(* running_tasks and the task cancelled; the task is cancelled in the step *)
(* that deletes its key and in no other, and a key deleted never comes     *)
(* back, so the task is cancelled and deleted at most once.                *)
C38_StopIsIdempotent ==
    /\ [](returned.op = "stop_strategy"
            => /\ returned.raised \in {"None", "ValueError"}
               /\ returned.raised = "None" <=> returned.arg \in Started
               /\ returned.raised = "None" <=> returned.value = {"True"}
               /\ returned.raised = "None" => StopCompleted(returned.arg))
    /\ [][/\ (CallReturns("stop_strategy")
              /\ returned'.raised = "ValueError")
                => UNCHANGED <<active_strategies, running_tasks, tasks,
                               stops>>
          /\ \A id \in Started :
                /\ (tasks[id] # "cancelled" /\ tasks'[id] = "cancelled")
                     <=> (id \in running_tasks /\ id \notin running_tasks')
                /\ tasks[id] = "cancelled" => tasks'[id] = "cancelled"
                /\ id \notin running_tasks => id \notin running_tasks'
                /\ StopCompleted(id)
                     => active_strategies'[id].status = "stopped"
                /\ (stops'[id] < stops[id] \/ (CallReturns("stop_strategy")
                                               /\ returned'.arg = id))
                     => /\ returned'.raised = "None"
                        /\ active_strategies'[id].status = "stopped"
                        /\ tasks'[id] = "cancelled"
                        /\ id \notin running_tasks']_vars

\* a stop_strategy call has returned while an earlier call for the same
\* strategy is still suspended in strategy.stop()
C38_Witness ==
    /\ 1 \in Started
    /\ stops[1] = 1
    /\ StopCompleted(1)
    /\ returned.op = "stop_strategy"
    /\ returned.arg = 1
    /\ returned.raised = "None"
    /\ tasks[1] = "cancelled"

----------------------------------------------------------------------------
(* C39: start_strategy behaves for the market type USDT_FUTURE as for      *)
(* SPOT: for a registered strategy it returns a new strategy id, creates   *)
(* one polling task on a broker of the market type asked for, and records  *)
(* the strategy with status "running" in active_strategies and in          *)
(* running_tasks.                                                          *)
C39_StartRecordsTheStrategy ==
    [][(CallReturns("start_strategy")
        /\ ~NotRegistered(returned'.strategy_name))
         => /\ returned'.raised = "None"
            /\ returned'.arg \notin Started
            /\ DOMAIN active_strategies' = Started \cup {returned'.arg}
            /\ active_strategies'[returned'.arg].status = "running"
            /\ running_tasks' = running_tasks \cup {returned'.arg}
            /\ DOMAIN tasks' = DOMAIN tasks \cup {returned'.arg}
            /\ tasks'[returned'.arg] = "created"
            /\ \A id \in Started : /\ tasks'[id] = tasks[id]
                                   /\ active_strategies'[id]
                                        = active_strategies[id]]_vars

----------------------------------------------------------------------------
(* C40: in live mode, whatever subscribes to the event bus, no candle is   *)
(* handed to on_kline of a strategy whose is_running flag is False:        *)
(* neither before start() has set the flag, nor between stop() clearing    *)
(* it and the polling task being cancelled. No step of the task changes   *)
(* the flag after the candle is handed over, so the flag on_kline finds is *)
(* the one the step leaves.                                                *)
C40_NoCandleWhileNotRunning ==
    [][\A id \in StrategyIds :
          Delivery(id) => /\ id \in Started
                          /\ active_strategies'[id].is_running]_vars

====
